---- MODULE Spec2Model ----
(***************************************************************************)
(* Model of the file processor of apps/langgraph:                          *)
(*   - the document pipeline  process_files -> generate_estimate           *)
(*     (src/file_processor/graph.py), and                                  *)
(*   - the video pipeline  analyze_video -> extract_frames                 *)
(*     (src/file_processor/video_graph.py).                                *)
(* A third specification calls download_from_url of graph.py directly, as   *)
(* its tests do.                                                           *)
(* Strings that the code inspects character by character (MIME types,      *)
(* file names, content types) are sequences of one-character strings;      *)
(* byte strings are sequences of numbers 0..255.  An Optional value is     *)
(* None (the empty tuple) or Some(x) (the one-element tuple).              *)
(***************************************************************************)
EXTENDS Integers, Sequences, FiniteSets, TLC

VARIABLES
    \* ---- document pipeline (graph.py) ----
    files,              \* State.files: the descriptors, then the processed files
    ai_estimate,        \* State.ai_estimate
    requested_changes,  \* State.requested_changes
    dpc,                \* position of the document run
    idx,                \* process_files: index of the next descriptor of the loop
    processed,          \* process_files: processed_files_for_baml
    derr,               \* the exception that ended the document run, if any
    dlog,               \* the external calls of the document run, with their results
    input_files,        \* history: State.files as the run was started with
    \* ---- video pipeline (video_graph.py) ----
    video_file,         \* VideoState.video_file
    local_video_path,   \* VideoState.local_video_path
    analysis,           \* VideoState.analysis
    extracted_frames,   \* VideoState.extracted_frames
    supabase_env,       \* SUPABASE_URL, SUPABASE_KEY, SUPABASE_BUCKET_NAME
    vpc,                \* position of the video run
    node_path,          \* analyze_video_node: its local variable local_video_path
    fs,                 \* the local paths that exist in TEMP_DIR
    gemini,             \* the remote (Gemini Files API) copy and its state
    frames_data,        \* _extract_key_frames_locally: extracted_frames_data
    kidx,               \* index of the next key frame / extracted frame of a loop
    uploaded,           \* extract_frames_node: extracted_frames_input_files
    bucket,             \* the storage paths present in the Supabase bucket
    verr,               \* the exception that ended the video run, if any
    vlog,               \* the external calls of the video run, with their results
    rm_faults,          \* environment: whether os.remove may fail on an existing file
    \* ---- a direct call of download_from_url (graph.py) ----
    dl_args,            \* the arguments and what the GET does, None without a call
    dl_result,          \* what the call returned or raised, None before it ends
    \* ---- the naming of one PDF page (graph.py, lines 48-51) ----
    nm_args,            \* original_file_name and page_num, None without a call
    nm_result,          \* page_file_name, None before it is computed
    \* ---- video runs side by side in one TEMP_DIR (video_graph.py) ----
    run_pc,             \* the position of each run
    run_uuid,           \* what uuid.uuid4() returned to each run, None before
    run_path,           \* the local_video_path of each run, None before it is chosen
    tmp_dir,            \* TEMP_DIR: the pairs <<path, run that wrote the file>>
    run_read,           \* whose file the decoder of each run was given, None before
    \* ---- calls of _cleanup_temp_file (video_graph.py) ----
    cl_path,            \* the argument path
    cl_fs,              \* the paths that exist
    cl_pc,              \* the position in the call
    cl_calls,           \* the calls made so far, the current one included
    cl_raised,          \* whether a call has raised
    cl_faults           \* environment: whether os.remove fails on an existing file

docvars == <<files, ai_estimate, requested_changes, dpc, idx, processed, derr, dlog,
             input_files>>
videovars == <<video_file, local_video_path, analysis, extracted_frames, supabase_env,
               vpc, node_path, fs, gemini, frames_data, kidx, uploaded, bucket,
               verr, vlog, rm_faults>>
fnvars == <<dl_args, dl_result>>
nmvars == <<nm_args, nm_result>>
runvars == <<run_pc, run_uuid, run_path, tmp_dir, run_read>>
clvars == <<cl_path, cl_fs, cl_pc, cl_calls, cl_raised, cl_faults>>
auxvars == <<fnvars, nmvars, runvars, clvars>>
vars == <<docvars, videovars, auxvars>>

\* ------------------------------------------------------------------ bounds
MaxFiles == 2
MaxPages == 2
MaxKeyFrames == 2
MaxNameLen == 3
MaxRuns == 2
MaxCalls == 2

\* ------------------------------------------------------------ basic values
None == <<>>
Some(x) == <<x>>
TruthyNotNone(opt) == opt # None
\* Python truthiness of an Optional[str]: None and "" are false.
Truthy(opt) == IF opt = None THEN FALSE ELSE opt[1] # <<>>

\* s.startswith(p)
StartsWith(s, p) == Len(s) >= Len(p) /\ SubSeq(s, 1, Len(p)) = p

\* ---------------------------------------------------------------- strings
T_pdf == <<"a","p","p","l","i","c","a","t","i","o","n","/","p","d","f">>
T_image == <<"i","m","a","g","e","/">>
T_audio == <<"a","u","d","i","o","/">>
T_text == <<"t","e","x","t","/">>
T_video == <<"v","i","d","e","o","/">>
T_image_png == T_image \o <<"p","n","g">>
T_audio_mpeg == T_audio \o <<"m","p","e","g">>
T_text_plain == T_text \o <<"p","l","a","i","n">>
T_video_mp4 == T_video \o <<"m","p","4">>
T_zip == <<"a","p","p","l","i","c","a","t","i","o","n","/","z","i","p">>

Letters == {"a","b","c","d","e","f","g","h","i","j","k","l","m","n","o","p","q","r",
            "s","t","u","v","w","x","y","z","A","B","C","D","E","F","G","H","I","J",
            "K","L","M","N","O","P","Q","R","S","T","U","V","W","X","Y","Z"}
DigitChars == <<"0","1","2","3","4","5","6","7","8","9">>
\* c.isalnum()
IsAlnum(c) == c \in Letters \/ (\E d \in 1..10 : DigitChars[d] = c)

RECURSIVE DecStr(_)
\* str(n) for n >= 0
DecStr(n) == IF n < 10 THEN <<DigitChars[n + 1]>>
             ELSE DecStr(n \div 10) \o <<DigitChars[(n % 10) + 1]>>

\* p.rfind(c): the last position of c in p (1-based), 0 when absent
RFind(p, c) == IF \E i \in 1..Len(p) : p[i] = c
               THEN CHOOSE i \in 1..Len(p) : p[i] = c /\ \A j \in (i+1)..Len(p) : p[j] # c
               ELSE 0

SplitextBaseNoStrip(p) == p
\* os.path.splitext(p)[0]: the extension starts at the last dot of the last path
\* component, unless that component has only dots before it.
SplitextBase(p) ==
    LET sepIndex == RFind(p, "/")
        dotIndex == RFind(p, ".")
    IN  IF dotIndex > sepIndex /\ (\E k \in (sepIndex + 1)..(dotIndex - 1) : p[k] # ".")
        THEN SubSeq(p, 1, dotIndex - 1)
        ELSE p

IsSpace(c) == c \in {" ", "\t", "\n", "\r"}
RECURSIVE RStrip(_)
\* s.rstrip()
RStrip(s) == IF s # <<>> /\ IsSpace(s[Len(s)]) THEN RStrip(SubSeq(s, 1, Len(s) - 1)) ELSE s

SafeBaseNameKeepsDash(base_name) ==
    RStrip([i \in 1..Len(base_name) |->
              IF IsAlnum(base_name[i]) \/ base_name[i] \in {" ", ".", "_", "-"}
              THEN base_name[i] ELSE "_"])
\* "".join(c if c.isalnum() or c in (' ', '.', '_') else '_' for c in base_name).rstrip()
SafeBaseName(base_name) ==
    RStrip([i \in 1..Len(base_name) |->
              IF IsAlnum(base_name[i]) \/ base_name[i] \in {" ", ".", "_"}
              THEN base_name[i] ELSE "_"])

PageFileNameZeroBased(original_file_name, page_num) ==
    SafeBaseName(SplitextBase(original_file_name))
        \o <<"_","p","a","g","e","_">> \o DecStr(page_num - 1) \o <<".","p","n","g">>
\* f"{safe_base_name}_page_{page_num}.png"
PageFileName(original_file_name, page_num) ==
    SafeBaseName(SplitextBase(original_file_name))
        \o <<"_","p","a","g","e","_">> \o DecStr(page_num) \o <<".","p","n","g">>

\* ------------------------------------------------------- bytes and encodings
Bytes(b) == <<"bytes", b>>
Str(s) == <<"str", s>>

\* bytes.decode('utf-8'): one- and two-byte sequences; any other byte is invalid.
RECURSIVE Utf8Valid(_)
Utf8Valid(b) ==
    IF b = <<>> THEN TRUE
    ELSE IF b[1] < 128 THEN Utf8Valid(Tail(b))
    ELSE IF b[1] >= 194 /\ b[1] <= 223 /\ Len(b) >= 2 /\ b[2] >= 128 /\ b[2] <= 191
         THEN Utf8Valid(Tail(Tail(b)))
    ELSE FALSE
RECURSIVE Utf8Decode(_)
\* the code points of a valid byte string
Utf8Decode(b) ==
    IF b = <<>> THEN <<>>
    ELSE IF b[1] < 128 THEN <<b[1]>> \o Utf8Decode(Tail(b))
    ELSE <<(b[1] - 192) * 64 + (b[2] - 128)>> \o Utf8Decode(Tail(Tail(b)))

\* the code point of the base64 character of a sextet; 64 stands for the padding '='
B64Char(x) == IF x < 26 THEN 65 + x
              ELSE IF x < 52 THEN 97 + (x - 26)
              ELSE IF x < 62 THEN 48 + (x - 52)
              ELSE IF x = 62 THEN 43
              ELSE IF x = 63 THEN 47
              ELSE 61
RECURSIVE B64Sextets(_)
B64Sextets(b) ==
    IF b = <<>> THEN <<>>
    ELSE IF Len(b) = 1 THEN <<b[1] \div 4, (b[1] % 4) * 16, 64, 64>>
    ELSE IF Len(b) = 2
         THEN <<b[1] \div 4, (b[1] % 4) * 16 + b[2] \div 16, (b[2] % 16) * 4, 64>>
    ELSE <<b[1] \div 4, (b[1] % 4) * 16 + b[2] \div 16,
           (b[2] % 16) * 4 + b[3] \div 64, b[3] % 64>> \o B64Sextets(SubSeq(b, 4, Len(b)))
\* base64.b64encode(b).decode('utf-8'), as code points
B64Encode(b) == LET x == B64Sextets(b) IN [i \in 1..Len(x) |-> B64Char(x[i])]

\* ------------------------------------------------------------- exceptions
Exc(kind, name, cause) == [kind |-> kind, name |-> name, cause |-> cause]
Ok(v) == [ok |-> TRUE, value |-> v]
Raise(e) == [ok |-> FALSE, value |-> e]

\* ------------------------------------------------------------ InputFile
\* baml_client.types.InputFile as the code constructs it: the four keyword
\* arguments, the three content slots defaulting to None.
InputFile(name, type, description, download_url) ==
    [name |-> name, type |-> type, description |-> description,
     download_url |-> download_url,
     content |-> None, image_data |-> None, audio_data |-> None]

\* Image.from_base64 / Audio.from_base64
FromBase64(media_type, base64) == [media_type |-> media_type, base64 |-> base64]

\* ------------------------------------------------ _process_pdf_to_image_input_files_sync
\* One page of the loop: the InputFile of page page_num from its PNG bytes.
PageInputFile(image_page_bytes, original_file_name, original_file_description, page_num) ==
    [InputFile(PageFileName(original_file_name, page_num), T_image_png,
               Some([page |-> page_num,
                     of |-> IF Truthy(original_file_description)
                            THEN original_file_description[1]
                            ELSE original_file_name]),
               None)
     EXCEPT !.image_data = Some(FromBase64(T_image_png, B64Encode(image_page_bytes)))]

RECURSIVE PdfPagesLoopAbortsOnEmpty(_, _, _, _)
\* The loop with a page of empty bytes raising instead of being skipped.
PdfPagesLoopAbortsOnEmpty(pil_images, i, original_file_name, original_file_description) ==
    IF i > Len(pil_images) THEN Ok(<<>>)
    ELSE IF ~pil_images[i].ok
         THEN Raise(Exc("SaveError", original_file_name, Some(i)))
    ELSE IF pil_images[i].bytes = <<>>
         THEN Raise(Exc("EmptyPage", original_file_name, Some(i)))
    ELSE LET rest == PdfPagesLoopAbortsOnEmpty(pil_images, i + 1, original_file_name,
                                               original_file_description)
         IN  IF ~rest.ok THEN rest
             ELSE Ok(<<PageInputFile(pil_images[i].bytes, original_file_name,
                                     original_file_description, i)>> \o rest.value)

RECURSIVE PdfPagesLoop(_, _, _, _)
\* The loop over pil_images from page i on: a save error raises, a page of empty
\* bytes is skipped, any other page is appended.
PdfPagesLoop(pil_images, i, original_file_name, original_file_description) ==
    IF i > Len(pil_images) THEN Ok(<<>>)
    ELSE IF ~pil_images[i].ok
         THEN Raise(Exc("SaveError", original_file_name, Some(i)))
    ELSE LET rest == PdfPagesLoop(pil_images, i + 1, original_file_name,
                                  original_file_description)
         IN  IF ~rest.ok THEN rest
             ELSE IF pil_images[i].bytes = <<>> THEN rest
             ELSE Ok(<<PageInputFile(pil_images[i].bytes, original_file_name,
                                     original_file_description, i)>> \o rest.value)

PdfToImagesNoZeroCheck(render, original_file_name, original_file_description) ==
    IF render.kind = "error"
    THEN Raise(Exc("ConversionError", original_file_name, None))
    ELSE PdfPagesLoop(render.pages, 1, original_file_name, original_file_description)
\* render is what convert_from_bytes does: it raises, or returns the pil_images,
\* each with what its save does (raise, or the PNG bytes written).
PdfToImages(render, original_file_name, original_file_description) ==
    IF render.kind = "error"
    THEN Raise(Exc("ConversionError", original_file_name, None))
    ELSE IF render.pages = <<>>
    THEN Raise(Exc("ZeroPages", original_file_name, None))
    ELSE PdfPagesLoop(render.pages, 1, original_file_name, original_file_description)

\* ------------------------------------------------------- download_from_url
DownloadFromUrlStrictMime(url, resp, as_bytes, expected_mime_type_prefix) ==
    IF resp.kind = "neterr" THEN Raise(Exc("ClientError", url, None))
    ELSE IF resp.status # 200
    THEN (IF Utf8Valid(resp.body)
          THEN Raise(Exc("DownloadFailed", url,
                         Some(<<resp.status, Str(Utf8Decode(resp.body))>>)))
          ELSE Raise(Exc("UnicodeDecodeError", url, None)))
    ELSE IF (IF Truthy(expected_mime_type_prefix)
             THEN ~StartsWith(resp.ctype, expected_mime_type_prefix[1]) ELSE FALSE)
    THEN Raise(Exc("MimeTypeMismatch", url, None))
    ELSE IF as_bytes THEN Ok(Bytes(resp.body))
    ELSE IF Utf8Valid(resp.body) THEN Ok(Str(Utf8Decode(resp.body)))
    ELSE Ok(Str(B64Encode(resp.body)))
DownloadFromUrlStrictDecode(url, resp, as_bytes, expected_mime_type_prefix) ==
    IF resp.kind = "neterr" THEN Raise(Exc("ClientError", url, None))
    ELSE IF resp.status # 200
    THEN (IF Utf8Valid(resp.body)
          THEN Raise(Exc("DownloadFailed", url,
                         Some(<<resp.status, Str(Utf8Decode(resp.body))>>)))
          ELSE Raise(Exc("UnicodeDecodeError", url, None)))
    ELSE IF as_bytes THEN Ok(Bytes(resp.body))
    ELSE IF Utf8Valid(resp.body) THEN Ok(Str(Utf8Decode(resp.body)))
    ELSE Raise(Exc("UnicodeDecodeError", url, None))
\* resp is what the GET does: the session raises (kind "neterr"), or a response
\* with a status, a Content-Type header and a body. The message of the error of
\* line 99 is built from response.text(), which decodes the body strictly (as
\* UTF-8 here) and so raises on a body that is not valid; every exception leaves
\* through the except of lines 119-121 unchanged.
DownloadFromUrl(url, resp, as_bytes, expected_mime_type_prefix) ==
    IF resp.kind = "neterr" THEN Raise(Exc("ClientError", url, None))
    ELSE IF resp.status # 200
    THEN (IF Utf8Valid(resp.body)
          THEN Raise(Exc("DownloadFailed", url,
                         Some(<<resp.status, Str(Utf8Decode(resp.body))>>)))
          ELSE Raise(Exc("UnicodeDecodeError", url, None)))
    ELSE IF as_bytes THEN Ok(Bytes(resp.body))
    ELSE IF Utf8Valid(resp.body) THEN Ok(Str(Utf8Decode(resp.body)))
    ELSE Ok(Str(B64Encode(resp.body)))

\* the warning of lines 104-105
MimeMismatch(resp, expected_mime_type_prefix) ==
    /\ resp.kind = "http" /\ resp.status = 200
    /\ Truthy(expected_mime_type_prefix)
    /\ ~StartsWith(resp.ctype, expected_mime_type_prefix[1])

\* ---------------------------------------------------- inputs of a document run
U1 == <<"u","1">>
U2 == <<"u","2">>
D1 == <<"d">>
\* The descriptors a run may be given: every MIME category with and without a
\* download URL (None or ""), with and without a description, one of them
\* already carrying content slots.
Descriptors ==
    { InputFile(<<"b","-","1",".","p","d","f">>, T_pdf, Some(D1), Some(U2)),
      InputFile(<<"i",".","p","n","g">>, T_image_png, Some(D1), Some(U1)),
      InputFile(<<"v",".","m","p","3">>, T_audio_mpeg, Some(D1), Some(U2)),
      [InputFile(<<"n",".","t","x","t">>, T_text_plain, None, Some(U1))
         EXCEPT !.image_data = Some(FromBase64(T_image_png, B64Encode(<<1>>))),
                !.audio_data = Some(FromBase64(T_audio_mpeg, B64Encode(<<2>>)))],
      InputFile(<<"m",".","m","p","4">>, T_video_mp4, Some(D1), Some(U2)),
      InputFile(<<"z",".","z","i","p">>, T_zip, None, Some(U1)),
      InputFile(<<"a",".","p","d","f">>, T_pdf, None, None),
      InputFile(<<"i",".","p","n","g">>, T_image_png, Some(D1), Some(<<>>)),
      InputFile(<<"v",".","m","p","3">>, T_audio_mpeg, None, None),
      [InputFile(<<"n",".","t","x","t">>, T_text_plain, None, Some(<<>>))
         EXCEPT !.content = Some(Str(<<104>>))],
      InputFile(<<"m",".","m","p","4">>, T_video_mp4, None, None),
      InputFile(<<"z",".","z","i","p">>, T_zip, Some(D1), None) }

SeqsUpTo(S, n) == UNION {[1..k -> S] : k \in 0..n}

\* What a GET may do: the session raises, or a response arrives.
Responses ==
    { [kind |-> "neterr"],
      [kind |-> "http", status |-> 404, ctype |-> T_text_plain, body |-> <<110,111>>],
      [kind |-> "http", status |-> 404, ctype |-> T_text_plain, body |-> <<255>>],
      [kind |-> "http", status |-> 200, ctype |-> T_text_plain, body |-> <<104,105>>],
      [kind |-> "http", status |-> 200, ctype |-> <<>>, body |-> <<255>>] }

\* What pil_page_image.save may do: raise, or write PNG bytes (possibly none).
PageSaves == { [ok |-> FALSE, bytes |-> <<>>],
               [ok |-> TRUE, bytes |-> <<>>],
               [ok |-> TRUE, bytes |-> <<137,80>>] }
\* What convert_from_bytes may do: raise, or return the pages.
Renders == {[kind |-> "error", pages |-> <<>>]}
           \cup {[kind |-> "pages", pages |-> p] : p \in SeqsUpTo(PageSaves, MaxPages)}

\* What b.ProcessAudio may do: raise, or return a transcript.
Transcriptions == { Raise(Exc("BamlError", <<>>, None)),
                    Ok(Str(<<>>)), Ok(Str(<<104,105>>)) }

\* What b.GenerateProjectEstimate may do: raise, or return a record.
Estimations == { Raise(Exc("BamlError", <<>>, None)), Ok("E1") }

\* no document run
IdleDoc ==
    /\ files = <<>> /\ ai_estimate = None /\ requested_changes = None
    /\ dpc = "idle" /\ idx = 1 /\ processed = <<>> /\ derr = None /\ dlog = <<>>
    /\ input_files = <<>>

InitDoc ==
    /\ files \in SeqsUpTo(Descriptors, MaxFiles)
    /\ ai_estimate \in {None, Some("E0")}
    /\ requested_changes \in {None, Some("rc")}
    /\ dpc = "process_files"
    /\ idx = 1
    /\ processed = <<>>
    /\ derr = None
    /\ dlog = <<>>
    /\ input_files = files

\* ------------------------------------------------------------ process_files
\* The branch of the if/elif chain of lines 143-195 that a declared type takes.
Category(type) ==
    IF StartsWith(type, T_pdf) THEN "pdf"
    ELSE IF StartsWith(type, T_image) THEN "image"
    ELSE IF StartsWith(type, T_audio) THEN "audio"
    ELSE IF StartsWith(type, T_text) THEN "text"
    ELSE IF StartsWith(type, T_video) THEN "video"
    ELSE "unsupported"

\* the record of one GET of download_from_url: who asked for what, and whether
\* the call returned or raised
Fetch(i, url, as_bytes, prefix, resp) ==
    [op |-> "fetch", i |-> i, url |-> url, as_bytes |-> as_bytes, prefix |-> prefix,
     ok |-> DownloadFromUrl(url, resp, as_bytes, prefix).ok]

InLoop == dpc = "process_files" /\ idx <= Len(files)

PFAppendInFront(outs, calls) ==
    /\ processed' = outs \o processed
    /\ idx' = idx + 1
    /\ dlog' = dlog \o calls
    /\ UNCHANGED <<files, ai_estimate, requested_changes, dpc, derr, input_files>>
    /\ UNCHANGED <<videovars, auxvars>>
\* the output is written over the input descriptor as well
PFAppendOverInput(outs, calls) ==
    /\ processed' = processed \o outs
    /\ idx' = idx + 1
    /\ dlog' = dlog \o calls
    /\ files' = IF outs = <<>> THEN files ELSE [files EXCEPT ![idx] = outs[1]]
    /\ UNCHANGED <<ai_estimate, requested_changes, dpc, derr, input_files>>
    /\ UNCHANGED <<videovars, auxvars>>
\* the iteration ends normally with these outputs appended
PFAppend(outs, calls) ==
    /\ processed' = processed \o outs
    /\ idx' = idx + 1
    /\ dlog' = dlog \o calls
    /\ UNCHANGED <<files, ai_estimate, requested_changes, dpc, derr, input_files>>
    /\ UNCHANGED <<videovars, auxvars>>

PFRaiseRetries(e, calls) ==
    /\ dlog' = dlog \o calls
    /\ UNCHANGED <<files, ai_estimate, requested_changes, dpc, idx, processed, derr,
                   input_files>>
    /\ UNCHANGED <<videovars, auxvars>>
\* the error is kept and the loop goes on to the next descriptor
PFRaiseDeferred(e, calls) ==
    /\ derr' = Some(e)
    /\ idx' = idx + 1
    /\ dlog' = dlog \o calls
    /\ UNCHANGED <<files, ai_estimate, requested_changes, dpc, processed, input_files>>
    /\ UNCHANGED <<videovars, auxvars>>
PFSkipFailedFile(e, calls) ==
    /\ processed' = processed
    /\ idx' = idx + 1
    /\ dlog' = dlog \o calls
    /\ UNCHANGED <<files, ai_estimate, requested_changes, dpc, derr, input_files>>
    /\ UNCHANGED <<videovars, auxvars>>
\* the exception leaves process_files: the run fails, nothing is returned
PFRaise(e, calls) ==
    /\ dpc' = "failed"
    /\ derr' = Some(e)
    /\ dlog' = dlog \o calls
    /\ UNCHANGED <<files, ai_estimate, requested_changes, idx, processed, input_files>>
    /\ UNCHANGED <<videovars, auxvars>>

\* lines 138-140
PF_NoUrl ==
    /\ InLoop
    /\ ~Truthy(files[idx].download_url)
    /\ PFRaise(Exc("NoDownloadUrl", files[idx].name, None), <<>>)

\* lines 143-158
PF_Pdf ==
    /\ InLoop
    /\ Truthy(files[idx].download_url)
    /\ Category(files[idx].type) = "pdf"
    /\ \E resp \in Responses, render \in Renders :
         LET file == files[idx]
             get == Fetch(idx, file.download_url[1], TRUE, Some(T_pdf), resp)
             pdf_bytes == DownloadFromUrl(file.download_url[1], resp, TRUE, Some(T_pdf))
             conv == [op |-> "convert_from_bytes", i |-> idx, render |-> render]
             page_image_files == PdfToImages(render, file.name, file.description)
         IN  IF ~pdf_bytes.ok THEN PFRaise(pdf_bytes.value, <<get>>)
             ELSE IF ~page_image_files.ok THEN PFRaise(page_image_files.value, <<get, conv>>)
             ELSE PFAppend(page_image_files.value, <<get, conv>>)

\* lines 160-167
PF_Image ==
    /\ InLoop
    /\ Truthy(files[idx].download_url)
    /\ Category(files[idx].type) = "image"
    /\ \E resp \in Responses :
         LET file == files[idx]
             file_baml_img == InputFile(file.name, file.type, file.description,
                                        file.download_url)
             get == Fetch(idx, file.download_url[1], TRUE, Some(T_image), resp)
             image_bytes == DownloadFromUrl(file.download_url[1], resp, TRUE, Some(T_image))
         IN  IF ~image_bytes.ok THEN PFRaise(image_bytes.value, <<get>>)
             ELSE PFAppend(<<[file_baml_img EXCEPT !.image_data =
                                Some(FromBase64(file.type, B64Encode(image_bytes.value[2])))]>>,
                           <<get>>)

AudioResultKeepsAudio(file_baml_audio, transcription) ==
    [file_baml_audio EXCEPT !.content = Some(transcription), !.type = T_text_plain]
AudioResultKeepsType(file_baml_audio, transcription) ==
    [file_baml_audio EXCEPT !.content = Some(transcription), !.audio_data = None]
\* lines 178-180: the transcript replaces the audio
AudioResult(file_baml_audio, transcription) ==
    [file_baml_audio EXCEPT !.content = Some(transcription),
                            !.audio_data = None,
                            !.type = T_text_plain]

\* lines 169-182
PF_Audio ==
    /\ InLoop
    /\ Truthy(files[idx].download_url)
    /\ Category(files[idx].type) = "audio"
    /\ \E resp \in Responses, transcription \in Transcriptions :
         LET file == files[idx]
             get == Fetch(idx, file.download_url[1], TRUE, Some(T_audio), resp)
             audio_bytes == DownloadFromUrl(file.download_url[1], resp, TRUE, Some(T_audio))
             file_baml_audio ==
                 [InputFile(file.name, file.type, file.description, file.download_url)
                  EXCEPT !.audio_data =
                      Some(FromBase64(file.type, B64Encode(audio_bytes.value[2])))]
             call == [op |-> "ProcessAudio", i |-> idx, audio |-> file_baml_audio,
                      result |-> transcription]
         IN  IF ~audio_bytes.ok THEN PFRaise(audio_bytes.value, <<get>>)
             ELSE IF ~transcription.ok THEN PFRaise(transcription.value, <<get, call>>)
             ELSE PFAppend(<<AudioResult(file_baml_audio, transcription.value)>>,
                           <<get, call>>)

\* lines 184-189
PF_Text ==
    /\ InLoop
    /\ Truthy(files[idx].download_url)
    /\ Category(files[idx].type) = "text"
    /\ \E resp \in Responses :
         LET file == files[idx]
             file_baml_text == InputFile(file.name, file.type, file.description,
                                         file.download_url)
             get == Fetch(idx, file.download_url[1], FALSE, Some(T_text), resp)
             text == DownloadFromUrl(file.download_url[1], resp, FALSE, Some(T_text))
         IN  IF ~text.ok THEN PFRaise(text.value, <<get>>)
             ELSE PFAppend(<<[file_baml_text EXCEPT !.content = Some(text.value)]>>, <<get>>)

\* lines 191-192
PF_Video ==
    /\ InLoop
    /\ Truthy(files[idx].download_url)
    /\ Category(files[idx].type) = "video"
    /\ PFAppend(<<>>, <<>>)

PF_UnsupportedFailsHard ==
    /\ InLoop
    /\ Truthy(files[idx].download_url)
    /\ Category(files[idx].type) = "unsupported"
    /\ PFRaise(Exc("UnsupportedType", files[idx].name, None), <<>>)
\* lines 194-195
PF_Unsupported ==
    /\ InLoop
    /\ Truthy(files[idx].download_url)
    /\ Category(files[idx].type) = "unsupported"
    /\ PFAppend(<<>>, <<>>)

\* line 204: the returned {"files": ...} replaces State.files, and the graph's
\* edge process_files -> generate_estimate is taken
PF_Return ==
    /\ dpc = "process_files"
    /\ idx > Len(files)
    /\ files' = processed
    /\ dpc' = "generate_estimate"
    /\ UNCHANGED <<ai_estimate, requested_changes, idx, processed, derr, dlog, input_files>>
    /\ UNCHANGED <<videovars, auxvars>>

\* ---------------------------------------------------------- generate_estimate
EstimateErrorDropsCause(e) == Exc("GenerateProjectEstimateFailed", <<>>, None)
\* lines 222-225: Exception(f"BAML GenerateProjectEstimate failed: {str(e)}")
EstimateError(e) == Exc("GenerateProjectEstimateFailed", <<>>, Some(e))

EstimateCallDropsChanges(st_files, st_estimate, st_changes, response) ==
    [op |-> "GenerateProjectEstimate", files |-> st_files,
     existing_estimate |-> st_estimate, requested_changes |-> None,
     result |-> response]
\* lines 215-219: the call of b.GenerateProjectEstimate with the three fields
\* of the state, and what it answered
EstimateCall(st_files, st_estimate, st_changes, response) ==
    [op |-> "GenerateProjectEstimate", files |-> st_files,
     existing_estimate |-> st_estimate, requested_changes |-> st_changes,
     result |-> response]

GenerateEstimate ==
    /\ dpc = "generate_estimate"
    /\ \E response \in Estimations :
         LET call == EstimateCall(files, ai_estimate, requested_changes, response)
         IN  /\ dlog' = Append(dlog, call)
             /\ IF response.ok
                THEN /\ ai_estimate' = Some(response.value)
                     /\ dpc' = "done"
                     /\ derr' = derr
                ELSE /\ derr' = Some(EstimateError(response.value))
                     /\ dpc' = "failed"
                     /\ ai_estimate' = ai_estimate
    /\ UNCHANGED <<files, requested_changes, idx, processed, input_files>>
    /\ UNCHANGED <<videovars, auxvars>>

DocNext ==
    \/ PF_NoUrl
    \/ PF_Pdf
    \/ PF_Image
    \/ PF_Audio
    \/ PF_Text
    \/ PF_Video
    \/ PF_Unsupported
    \/ PF_Return
    \/ GenerateEstimate

\* ======================================================== video pipeline
\* ---------------------------------------------------------- _cleanup_temp_file
\* The file systems _cleanup_temp_file(path) may leave of the file system f:
\* nothing happens for no path or a path that does not exist; otherwise os.remove
\* removes the file, or raises and the error is only logged.
CleanupResultsNoRemove(path, f) == {f}
CleanupResults(path, f) ==
    IF (IF path = None THEN FALSE ELSE path[1] \in f)
    THEN {f \ {path[1]}} \cup (IF rm_faults THEN {f} ELSE {})
    ELSE {f}

\* ------------------------------------------------------- inputs of a video run
VideoName == <<"m",".","m","p","4">>
VideoFiles == { InputFile(VideoName, T_video_mp4, Some(D1), Some(U1)),
                InputFile(VideoName, T_video_mp4, Some(D1), None) }
\* uuid.uuid4()
Uuids == {"uuid_a", "uuid_b", "uuid_c"}
project_id == <<"p">>
parent_file_id == <<"f">>

\* SUPABASE_URL, SUPABASE_KEY, SUPABASE_STORAGE_BUCKET: set or not
SupabaseEnvs == { [url |-> TRUE, key |-> TRUE, bucket |-> TRUE],
                  [url |-> FALSE, key |-> TRUE, bucket |-> TRUE],
                  [url |-> TRUE, key |-> FALSE, bucket |-> TRUE],
                  [url |-> TRUE, key |-> TRUE, bucket |-> FALSE] }

\* KeyFrame: timestamp_s in thousandths of a second
KeyFrames == { [filename |-> Some(<<"k",".","p","n","g">>), timestamp_ms |-> 0,
                description |-> <<"x">>],
               [filename |-> None, timestamp_ms |-> 1001, description |-> <<"y">>],
               [filename |-> Some(<<>>), timestamp_ms |-> 1004, description |-> <<"z">>] }
\* What the analysis model may return
Analyses == { [detailed_description |-> <<"d">>, key_frames |-> k] :
              k \in SeqsUpTo(KeyFrames, MaxKeyFrames) }

\* States of a remote file; None when the API reports none
GeminiStates == {None, Some("PROCESSING"), Some("ACTIVE"), Some("FAILED")}

\* What one ffmpeg invocation may do: the process cannot be started, or it exits
\* with a return code, its stdout and its stderr.
DecoderRuns ==
    { [spawned |-> FALSE, returncode |-> 0, stdout |-> <<>>, stderr |-> <<>>],
      [spawned |-> TRUE, returncode |-> 0, stdout |-> <<137,80>>, stderr |-> <<>>],
      [spawned |-> TRUE, returncode |-> 0, stdout |-> <<>>, stderr |-> <<>>],
      [spawned |-> TRUE, returncode |-> 1, stdout |-> <<>>, stderr |-> <<101>>],
      [spawned |-> TRUE, returncode |-> 1, stdout |-> <<>>, stderr |-> <<255>>] }

\* no video run
IdleVideo ==
    /\ video_file = None /\ local_video_path = None /\ analysis = None
    /\ extracted_frames = None /\ supabase_env = None /\ vpc = "idle"
    /\ node_path = None /\ fs = {} /\ gemini = None /\ frames_data = <<>>
    /\ kidx = 1 /\ uploaded = <<>> /\ bucket = {} /\ verr = None /\ vlog = <<>>
    /\ rm_faults = FALSE

InitVideoCommon ==
    /\ video_file \in VideoFiles
    /\ local_video_path = None
    /\ analysis = None
    /\ extracted_frames = None
    /\ supabase_env \in SupabaseEnvs
    /\ vpc = "analyze_video"
    /\ node_path = None
    /\ fs = {}
    /\ gemini = [present |-> FALSE, state |-> None]
    /\ frames_data = <<>>
    /\ kidx = 1
    /\ uploaded = <<>>
    /\ bucket = {}
    /\ verr = None
    /\ vlog = <<>>

\* the file system removes what it is asked to remove
InitVideo == InitVideoCommon /\ rm_faults = FALSE
\* os.remove may fail
InitVideoFaults == InitVideoCommon /\ rm_faults \in BOOLEAN

VRaiseStaysInStep(e) == verr' = Some(e) /\ UNCHANGED vpc
LocalVideoPathNoUuid(u, name) == <<"video", name>>
\* line 179: TEMP_DIR / f"{uuid.uuid4()}_{state.video_file.name}"
LocalVideoPath(u, name) == <<u, name>>

\* a removal that failed replaces the error of the stage
VRaiseMaskedByCleanup(e) ==
    /\ vpc' = "failed"
    /\ verr' = Some(IF node_path # None /\ node_path[1] \in fs'
                    THEN Exc("OSError", node_path[1], None) ELSE e)
\* the exception leaves the node: the run fails
VRaise(e) == vpc' = "failed" /\ verr' = Some(e)

\* ------------------------------------------------------------ analyze_video_node
\* lines 174-179: the URL check and the choice of the local path
AnalyzeStart ==
    /\ vpc = "analyze_video"
    /\ IF ~Truthy(video_file.download_url)
       THEN /\ fs' \in CleanupResults(local_video_path, fs)
            /\ VRaise(Exc("ValueError", <<"download_url">>, None))
            /\ UNCHANGED node_path
       ELSE /\ \E u \in Uuids : node_path' = Some(LocalVideoPath(u, video_file.name))
            /\ vpc' = "download_file"
            /\ UNCHANGED <<fs, verr>>
    /\ UNCHANGED <<docvars, auxvars>>
    /\ UNCHANGED <<video_file, local_video_path, analysis, extracted_frames, supabase_env,
                   gemini, frames_data, kidx, uploaded, bucket, vlog, rm_faults>>

\* lines 182, 95-102 and the except of 194-197. The download may fail before the
\* destination is opened, or after (the file then exists).
DownloadFile ==
    /\ vpc = "download_file"
    /\ \E r \in {"ok", "http_error", "write_error"} :
         /\ vlog' = Append(vlog, [op |-> "download_file", result |-> r])
         /\ IF r = "ok"
            THEN /\ fs' = fs \cup {node_path[1]}
                 /\ vpc' = "upload_video_to_gemini"
                 /\ UNCHANGED verr
            ELSE /\ fs' \in CleanupResults(node_path,
                              IF r = "write_error" THEN fs \cup {node_path[1]} ELSE fs)
                 /\ VRaise(Exc("DownloadError", video_file.name, Some(r)))
    /\ UNCHANGED <<docvars, auxvars>>
    /\ UNCHANGED <<video_file, local_video_path, analysis, extracted_frames, supabase_env,
                   node_path, gemini, frames_data, kidx, uploaded, bucket, rm_faults>>

\* lines 184, 63: the upload to the Gemini Files API, which returns the remote
\* file in some state, or raises
UploadVideo ==
    /\ vpc = "upload_video_to_gemini"
    /\ \/ \E st \in GeminiStates :
            /\ gemini' = [present |-> TRUE, state |-> st]
            /\ vlog' = Append(vlog, [op |-> "files.upload", result |-> "ok"])
            /\ vpc' = "poll"
            /\ UNCHANGED <<fs, verr>>
       \/ /\ vlog' = Append(vlog, [op |-> "files.upload", result |-> "error"])
          /\ fs' \in CleanupResults(node_path, fs)
          /\ VRaise(Exc("UploadError", video_file.name, None))
          /\ UNCHANGED gemini
    /\ UNCHANGED <<docvars, auxvars>>
    /\ UNCHANGED <<video_file, local_video_path, analysis, extracted_frames, supabase_env,
                   node_path, frames_data, kidx, uploaded, bucket, rm_faults>>

NotActiveAcceptsNone(st) == IF st = None THEN FALSE ELSE st[1] # "ACTIVE"
NotActiveStopsOnFailed(st) == IF st = None THEN TRUE ELSE st[1] = "PROCESSING"
\* the loop condition of line 64
NotActive(st) == IF st = None THEN TRUE ELSE st[1] # "ACTIVE"

\* lines 64-67: one round of the polling loop, files.get returning the file in
\* some state, or raising
PollVideo ==
    /\ vpc = "poll"
    /\ NotActive(gemini.state)
    /\ \/ \E st \in GeminiStates :
            /\ gemini' = [gemini EXCEPT !.state = st]
            /\ UNCHANGED <<fs, vpc, verr>>
       \/ /\ fs' \in CleanupResults(node_path, fs)
          /\ VRaise(Exc("PollError", video_file.name, None))
          /\ UNCHANGED gemini
    /\ UNCHANGED <<docvars, auxvars>>
    /\ UNCHANGED <<video_file, local_video_path, analysis, extracted_frames, supabase_env,
                   node_path, frames_data, kidx, uploaded, bucket, vlog, rm_faults>>

\* upload_video_to_gemini returns and the local file is removed at once
PollDoneCleansUp ==
    /\ vpc = "poll"
    /\ ~NotActive(gemini.state)
    /\ vpc' = "run_analyze_video_baml"
    /\ fs' \in CleanupResults(node_path, fs)
    /\ UNCHANGED <<docvars, auxvars>>
    /\ UNCHANGED <<video_file, local_video_path, analysis, extracted_frames, supabase_env,
                   node_path, gemini, frames_data, kidx, uploaded, bucket, verr, vlog,
                   rm_faults>>
\* lines 69-70: the loop ends and upload_video_to_gemini returns
PollDone ==
    /\ vpc = "poll"
    /\ ~NotActive(gemini.state)
    /\ vpc' = "run_analyze_video_baml"
    /\ UNCHANGED <<docvars, auxvars>>
    /\ UNCHANGED <<video_file, local_video_path, analysis, extracted_frames, supabase_env,
                   node_path, fs, gemini, frames_data, kidx, uploaded, bucket, verr, vlog,
                   rm_faults>>

\* lines 187-197 and 77-93: the request is built, the model is called, its
\* response is parsed and the remote file is deleted; any of the four may raise.
\* On success the node returns and the graph merges analysis and local_video_path
\* into the state.
AnalyzeVideoBaml ==
    /\ vpc = "run_analyze_video_baml"
    /\ \E r \in {"request_error", "model_error", "parse_error", "delete_error", "ok"},
          a \in Analyses :
         LET gen == [op |-> "generate_content", state |-> gemini.state, result |-> r]
             del == [op |-> "files.delete", state |-> gemini.state, result |-> r]
         IN
         /\ vlog' = vlog \o (IF r = "request_error" THEN <<>>
                             ELSE IF r \in {"model_error", "parse_error"} THEN <<gen>>
                             ELSE <<gen, del>>)
         /\ IF r = "ok"
            THEN /\ gemini' = [gemini EXCEPT !.present = FALSE]
                 /\ analysis' = Some(a)
                 /\ local_video_path' = Some(node_path[1])
                 /\ vpc' = "extract_frames"
                 /\ UNCHANGED <<fs, verr>>
            ELSE /\ fs' \in CleanupResults(node_path, fs)
                 /\ VRaise(Exc("AnalysisError", video_file.name, Some(r)))
                 /\ UNCHANGED <<gemini, analysis, local_video_path>>
    /\ UNCHANGED <<docvars, auxvars>>
    /\ UNCHANGED <<video_file, extracted_frames, supabase_env, node_path, frames_data,
                   kidx, uploaded, bucket, rm_faults>>

\* ---------------------------------------------------- _extract_key_frames_locally
\* f"{x:.2f}" of x = ms/1000 seconds (no ms here ends in 5, so no rounding tie)
Fmt2(ms) ==
    LET centis == (ms + 5) \div 10
    IN  DecStr(centis \div 100)
          \o <<".", DigitChars[((centis \div 10) % 10) + 1], DigitChars[(centis % 10) + 1]>>

\* the suggested filename taken whenever it is not None, the empty one too
FrameFilenameIfNotNone(key_frame) ==
    IF key_frame.filename # None THEN key_frame.filename[1]
    ELSE <<"f","r","a","m","e","_","t","s","_">> \o Fmt2(key_frame.timestamp_ms)
           \o <<".","p","n","g">>
\* line 132
FrameFilename(key_frame) ==
    IF Truthy(key_frame.filename) THEN key_frame.filename[1]
    ELSE <<"f","r","a","m","e","_","t","s","_">> \o Fmt2(key_frame.timestamp_ms)
           \o <<".","p","n","g">>

\* lines 146-163: what one iteration of the loop does with a decoder run. The
\* process may fail to start (create_subprocess_exec raises); on a non-zero
\* return code the log line decodes stderr, which raises on bytes that are not
\* UTF-8, and otherwise the frame is skipped; empty stdout skips the frame.
DecodeStep(run) ==
    IF ~run.spawned THEN "raise"
    ELSE IF run.returncode # 0
         THEN (IF Utf8Valid(run.stderr) THEN "skip" ELSE "raise")
    ELSE IF run.stdout = <<>> THEN "skip"
    ELSE "append"

\* ------------------------------------------------------------ extract_frames_node
KeyFramesOf(a) == IF a = None THEN <<>> ELSE a[1].key_frames
SupabaseConfigured == supabase_env.url /\ supabase_env.key /\ supabase_env.bucket

\* lines 203-222: the guards of the node and the creation of the storage client,
\* which may raise (it is outside every try)
ExtractStart ==
    /\ vpc = "extract_frames"
    /\ IF analysis = None \/ KeyFramesOf(analysis) = <<>>
       THEN /\ fs' \in CleanupResults(local_video_path, fs)
            /\ extracted_frames' = Some(<<>>)
            /\ vpc' = "done"
            /\ UNCHANGED <<verr, vlog>>
       ELSE IF (IF local_video_path = None THEN TRUE ELSE local_video_path[1] \notin fs)
       THEN /\ VRaise(Exc("ValueError", <<"local_video_path">>, None))
            /\ UNCHANGED <<fs, extracted_frames, vlog>>
       ELSE IF ~SupabaseConfigured
       THEN /\ fs' \in CleanupResults(local_video_path, fs)
            /\ VRaise(Exc("ValueError", <<"supabase">>, None))
            /\ UNCHANGED <<extracted_frames, vlog>>
       ELSE \E r \in {"ok", "error"} :
            /\ vlog' = Append(vlog, [op |-> "create_async_client", result |-> r])
            /\ IF r = "ok"
               THEN vpc' = "extract_key_frames" /\ UNCHANGED verr
               ELSE VRaise(Exc("StorageClientError", <<>>, None))
            /\ UNCHANGED <<fs, extracted_frames>>
    /\ UNCHANGED <<docvars, auxvars>>
    /\ UNCHANGED <<video_file, local_video_path, analysis, supabase_env, node_path,
                   gemini, frames_data, kidx, uploaded, bucket, rm_faults>>

\* lines 130-163 inside the try of lines 225-235: one iteration of the loop of
\* _extract_key_frames_locally; an exception leaves the function and is caught
\* by the node, which cleans up and re-raises
ExtractKeyFrame ==
    /\ vpc = "extract_key_frames"
    /\ kidx <= Len(KeyFramesOf(analysis))
    /\ \E run \in DecoderRuns :
         LET key_frame == KeyFramesOf(analysis)[kidx]
             step == DecodeStep(run)
         IN
         /\ vlog' = Append(vlog, [op |-> "ffmpeg", k |-> kidx, run |-> run,
                                  exists |-> local_video_path[1] \in fs])
         /\ IF step = "raise"
            THEN /\ fs' \in CleanupResults(local_video_path, fs)
                 /\ VRaise(Exc("ExtractionError", FrameFilename(key_frame),
                               Some(IF run.spawned THEN "UnicodeDecodeError" ELSE "OSError")))
                 /\ UNCHANGED <<frames_data, kidx>>
            ELSE /\ frames_data' =
                       IF step = "append"
                       THEN Append(frames_data,
                                   [key_frame |-> key_frame, frame_bytes |-> run.stdout,
                                    frame_filename |-> FrameFilename(key_frame)])
                       ELSE frames_data
                 /\ kidx' = kidx + 1
                 /\ UNCHANGED <<fs, vpc, verr>>
    /\ UNCHANGED <<docvars, auxvars>>
    /\ UNCHANGED <<video_file, local_video_path, analysis, extracted_frames, supabase_env,
                   node_path, gemini, uploaded, bucket, rm_faults>>

\* line 165: the loop is over and _extract_key_frames_locally returns
ExtractReturn ==
    /\ vpc = "extract_key_frames"
    /\ kidx > Len(KeyFramesOf(analysis))
    /\ vpc' = "upload_frames"
    /\ kidx' = 1
    /\ UNCHANGED <<docvars, auxvars>>
    /\ UNCHANGED <<video_file, local_video_path, analysis, extracted_frames, supabase_env,
                   node_path, fs, gemini, frames_data, uploaded, bucket, verr, vlog,
                   rm_faults>>

\* the path without the directory of the parent file
StoragePathNoParent(frame_filename) == <<project_id, "frames", frame_filename>>
\* line 242
StoragePath(frame_filename) == <<project_id, "frames", parent_file_id, frame_filename>>

\* lines 238-264: one iteration of the upload loop. The upload raises on any
\* failure; with upsert false a path that is already in the bucket is one.
UploadFrame ==
    /\ vpc = "upload_frames"
    /\ kidx <= Len(frames_data)
    /\ \E r \in {"ok", "error"} :
         LET frame == frames_data[kidx]
             storage_path == StoragePath(frame.frame_filename)
             ok == r = "ok" /\ storage_path \notin bucket
         IN
         /\ vlog' = Append(vlog, [op |-> "storage.upload", path |-> storage_path,
                                  result |-> IF ok THEN "ok" ELSE "error"])
         /\ IF ok
            THEN /\ bucket' = bucket \cup {storage_path}
                 /\ uploaded' = Append(uploaded,
                        InputFile(frame.frame_filename, T_image_png,
                                  Some(frame.key_frame.description), Some(storage_path)))
                 /\ kidx' = kidx + 1
                 /\ UNCHANGED <<fs, vpc, verr>>
            ELSE /\ fs' \in CleanupResults(local_video_path, fs)
                 /\ VRaise(Exc("StorageUploadError", frame.frame_filename, None))
                 /\ UNCHANGED <<bucket, uploaded, kidx>>
    /\ UNCHANGED <<docvars, auxvars>>
    /\ UNCHANGED <<video_file, local_video_path, analysis, extracted_frames, supabase_env,
                   node_path, gemini, frames_data, rm_faults>>

\* lines 269-270
ExtractFinish ==
    /\ vpc = "upload_frames"
    /\ kidx > Len(frames_data)
    /\ fs' \in CleanupResults(local_video_path, fs)
    /\ extracted_frames' = Some(uploaded)
    /\ vpc' = "done"
    /\ UNCHANGED <<docvars, auxvars>>
    /\ UNCHANGED <<video_file, local_video_path, analysis, supabase_env, node_path,
                   gemini, frames_data, kidx, uploaded, bucket, verr, vlog, rm_faults>>

VideoNext ==
    \/ AnalyzeStart
    \/ DownloadFile
    \/ UploadVideo
    \/ PollVideo
    \/ PollDone
    \/ AnalyzeVideoBaml
    \/ ExtractStart
    \/ ExtractKeyFrame
    \/ ExtractReturn
    \/ UploadFrame
    \/ ExtractFinish

\* ================================================ a call of download_from_url
\* no direct call
IdleFn == dl_args = None /\ dl_result = None

\* What the GET of a direct call may do: more statuses, content types and bodies
\* than a document run is given (the bodies hold one- and two-byte UTF-8
\* sequences and bytes that are valid in no position).
DlResponses ==
    {[kind |-> "neterr"]}
    \cup {[kind |-> "http", status |-> st, ctype |-> ct, body |-> b] :
            st \in {200, 201, 204, 404, 500},
            ct \in {<<>>, T_text_plain, T_image_png},
            b \in {<<>>, <<104,105>>, <<195,169>>, <<255>>, <<104,195>>}}

InitDownload ==
    /\ dl_args \in {Some(a) : a \in [url : {U1, U2}, resp : DlResponses, as_bytes : BOOLEAN,
                                     expected_mime_type_prefix :
                                         {None, Some(<<>>), Some(T_text), Some(T_image)}]}
    /\ dl_result = None

\* download_from_url(url, as_bytes, expected_mime_type_prefix)
CallDownloadFromUrl ==
    /\ dl_args # None
    /\ dl_result = None
    /\ dl_result' = Some(DownloadFromUrl(dl_args[1].url, dl_args[1].resp, dl_args[1].as_bytes,
                                         dl_args[1].expected_mime_type_prefix))
    /\ UNCHANGED <<docvars, videovars, dl_args, nmvars, runvars, clvars>>

DownloadNext == CallDownloadFromUrl

\* ======================================== video runs side by side in TEMP_DIR
Runs == 1..MaxRuns
IdleRuns == /\ run_pc = <<>> /\ run_uuid = <<>> /\ run_path = <<>> /\ tmp_dir = {}
            /\ run_read = <<>>

\* Every run is given the same video descriptor and has not started.
InitRuns ==
    /\ run_pc = [r \in Runs |-> "analyze_video"]
    /\ run_uuid = [r \in Runs |-> None]
    /\ run_path = [r \in Runs |-> None]
    /\ tmp_dir = {}
    /\ run_read = [r \in Runs |-> None]

\* TEMP_DIR without the file at path p
WithoutPath(dir, p) == {f \in dir : f[1] # p}
\* the run that wrote the file at path p, 0 when there is no file
WriterOf(dir, p) == IF \E f \in dir : f[1] = p
                    THEN (CHOOSE f \in dir : f[1] = p)[2] ELSE 0

\* lines 174-179 of run r: uuid.uuid4() returns a value it has returned to no
\* other run, and the local path is made of it and of the video's name
RunStart(r) ==
    /\ run_pc[r] = "analyze_video"
    /\ \E u \in Uuids \ {run_uuid[q][1] : q \in {q \in Runs : run_uuid[q] # None}} :
         /\ run_uuid' = [run_uuid EXCEPT ![r] = Some(u)]
         /\ run_path' = [run_path EXCEPT ![r] = Some(LocalVideoPath(u, VideoName))]
    /\ run_pc' = [run_pc EXCEPT ![r] = "download_file"]
    /\ UNCHANGED <<tmp_dir, run_read>>
    /\ UNCHANGED <<docvars, videovars, fnvars, nmvars, clvars>>

\* lines 182 and 95-102 of run r: the download writes the file at the run's
\* path (over a file that is there); when it fails the except of 194-197
\* removes what is at that path
RunDownload(r) ==
    /\ run_pc[r] = "download_file"
    /\ \E ok \in BOOLEAN :
         IF ok
         THEN /\ tmp_dir' = WithoutPath(tmp_dir, run_path[r][1])
                               \cup {<<run_path[r][1], r>>}
              /\ run_pc' = [run_pc EXCEPT ![r] = "run_analyze_video_baml"]
         ELSE /\ tmp_dir' = WithoutPath(tmp_dir, run_path[r][1])
              /\ run_pc' = [run_pc EXCEPT ![r] = "failed"]
    /\ UNCHANGED <<run_uuid, run_path, run_read>>
    /\ UNCHANGED <<docvars, videovars, fnvars, nmvars, clvars>>

\* lines 184-197 of run r: the remote upload and the analysis, which leave the
\* local file alone when they succeed and remove it when they fail
RunAnalyze(r) ==
    /\ run_pc[r] = "run_analyze_video_baml"
    /\ \E ok \in BOOLEAN :
         IF ok
         THEN /\ run_pc' = [run_pc EXCEPT ![r] = "extract_key_frames"]
              /\ UNCHANGED tmp_dir
         ELSE /\ tmp_dir' = WithoutPath(tmp_dir, run_path[r][1])
              /\ run_pc' = [run_pc EXCEPT ![r] = "failed"]
    /\ UNCHANGED <<run_uuid, run_path, run_read>>
    /\ UNCHANGED <<docvars, videovars, fnvars, nmvars, clvars>>

\* lines 135-151 of run r: the decoder is given the run's path and reads the
\* file that is there
RunDecode(r) ==
    /\ run_pc[r] = "extract_key_frames"
    /\ run_read' = [run_read EXCEPT ![r] = Some(WriterOf(tmp_dir, run_path[r][1]))]
    /\ run_pc' = [run_pc EXCEPT ![r] = "upload_frames"]
    /\ UNCHANGED <<run_uuid, run_path, tmp_dir>>
    /\ UNCHANGED <<docvars, videovars, fnvars, nmvars, clvars>>

\* lines 238-270 of run r: after the uploads, or when one fails, the file at
\* the run's path is removed
RunFinish(r) ==
    /\ run_pc[r] = "upload_frames"
    /\ tmp_dir' = WithoutPath(tmp_dir, run_path[r][1])
    /\ \E ok \in BOOLEAN : run_pc' = [run_pc EXCEPT ![r] = IF ok THEN "done" ELSE "failed"]
    /\ UNCHANGED <<run_uuid, run_path, run_read>>
    /\ UNCHANGED <<docvars, videovars, fnvars, nmvars, clvars>>

RunsNext ==
    \E r \in Runs :
        \/ RunStart(r)
        \/ RunDownload(r)
        \/ RunAnalyze(r)
        \/ RunDecode(r)
        \/ RunFinish(r)

\* ================================================ calls of _cleanup_temp_file
IdleCleanup == /\ cl_path = None /\ cl_fs = {} /\ cl_pc = "idle" /\ cl_calls = 0
               /\ cl_raised = FALSE /\ cl_faults = FALSE

\* the local video of a run, and another file of TEMP_DIR
ClVideoPath == LocalVideoPath("uuid_a", VideoName)
ClOtherPath == LocalVideoPath("uuid_b", VideoName)
\* no path, the empty string, the local video
ClPaths == {None, Some(<<>>), Some(ClVideoPath)}

InitCleanup ==
    /\ cl_path \in ClPaths
    /\ cl_fs \in SUBSET {ClVideoPath, ClOtherPath}
    /\ cl_pc = "idle" /\ cl_calls = 0 /\ cl_raised = FALSE
    /\ cl_faults \in BOOLEAN

\* line 43 without its `path and`: Path(None) raises TypeError, Path("") is the
\* current directory, which exists
CleanupGuardNoPathTest(path, f) ==
    IF path = None THEN "raise"
    ELSE IF path[1] = <<>> \/ path[1] \in f THEN "safe_remove" ELSE "return"
\* line 43: `if path and Path(path).exists()`
CleanupGuard(path, f) ==
    IF ~Truthy(path) THEN "return"
    ELSE IF path[1] \in f THEN "safe_remove" ELSE "return"

\* lines 44-53: os.remove(p); FileNotFoundError is passed over in safe_remove,
\* any other exception is logged by the caller's except and not raised
SafeRemove(p, f, faults) ==
    IF p \notin f THEN f
    ELSE IF faults THEN f
    ELSE f \ {p}

\* a call of _cleanup_temp_file(cl_path) begins
CleanupCall ==
    /\ cl_pc = "idle" /\ cl_calls < MaxCalls
    /\ cl_calls' = cl_calls + 1
    /\ cl_pc' = "exists"
    /\ UNCHANGED <<cl_path, cl_fs, cl_raised, cl_faults>>
    /\ UNCHANGED <<docvars, videovars, fnvars, nmvars, runvars>>

\* line 43: the test of the path, after which the call returns or goes on to
\* the removal
CleanupExists ==
    /\ cl_pc = "exists"
    /\ LET g == CleanupGuard(cl_path, cl_fs) IN
         /\ cl_pc' = IF g = "safe_remove" THEN "safe_remove" ELSE "idle"
         /\ cl_raised' = (cl_raised \/ g = "raise")
    /\ UNCHANGED <<cl_path, cl_fs, cl_calls, cl_faults>>
    /\ UNCHANGED <<docvars, videovars, fnvars, nmvars, runvars>>

\* lines 44-53: the removal in the worker thread, and the return
CleanupRemove ==
    /\ cl_pc = "safe_remove"
    /\ cl_fs' = SafeRemove(cl_path[1], cl_fs, cl_faults)
    /\ cl_pc' = "idle"
    /\ UNCHANGED <<cl_path, cl_calls, cl_raised, cl_faults>>
    /\ UNCHANGED <<docvars, videovars, fnvars, nmvars, runvars>>

\* Something else removes a file of TEMP_DIR, at any moment of a call.
ExternalRemove ==
    /\ \E p \in cl_fs : cl_fs' = cl_fs \ {p}
    /\ UNCHANGED <<cl_path, cl_pc, cl_calls, cl_raised, cl_faults>>
    /\ UNCHANGED <<docvars, videovars, fnvars, nmvars, runvars>>

CleanupNext ==
    \/ CleanupCall
    \/ CleanupExists
    \/ CleanupRemove
    \/ ExternalRemove

\* =================================================== the name of a PDF page
IdleNames == nm_args = None /\ nm_result = None

\* the characters of the names: letters, a digit, the three characters that are
\* kept, and characters that are not (a tab among them)
NameChars == {"a", "B", "7", " ", ".", "_", "-", "/", "\t"}
PlansName == <<"P","l","a","n","s"," ","(","v","2",")","/","F","i","n","a","l",
               ".","p","d","f">>
FileNames == {PlansName} \cup SeqsUpTo(NameChars, MaxNameLen)

InitNames ==
    /\ nm_args \in {Some([original_file_name |-> n, page_num |-> k]) :
                       n \in FileNames, k \in (1..MaxPages) \cup {12}}
    /\ nm_result = None

\* lines 48-51 for one page
NamePage ==
    /\ nm_args # None
    /\ nm_result = None
    /\ nm_result' = Some(PageFileName(nm_args[1].original_file_name, nm_args[1].page_num))
    /\ UNCHANGED <<docvars, videovars, fnvars, nm_args, runvars, clvars>>

NamesNext == NamePage

\* ========================================================== specifications
\* A document run; the video pipeline is idle.
DocInit == InitDoc /\ IdleVideo /\ IdleFn /\ IdleNames /\ IdleRuns /\ IdleCleanup
DocSpec == DocInit /\ [][DocNext]_vars

\* A video run in which os.remove removes what it is asked to remove; the
\* document pipeline is idle.
VideoInit == InitVideo /\ IdleDoc /\ IdleFn /\ IdleNames /\ IdleRuns /\ IdleCleanup
VideoSpec == VideoInit /\ [][VideoNext]_vars

\* A video run in which os.remove may also fail.
VideoFaultInit == InitVideoFaults /\ IdleDoc /\ IdleFn /\ IdleNames /\ IdleRuns /\ IdleCleanup
VideoFaultSpec == VideoFaultInit /\ [][VideoNext]_vars

\* A video run that the graph runtime drives on: it always takes the next step.
VideoLiveSpec == VideoInit /\ [][VideoNext]_vars /\ WF_vars(VideoNext)

\* One direct call of download_from_url; both pipelines are idle.
DownloadInit == InitDownload /\ IdleDoc /\ IdleVideo /\ IdleNames /\ IdleRuns /\ IdleCleanup
DownloadSpec == DownloadInit /\ [][DownloadNext]_vars

\* Calls of _cleanup_temp_file on one path; everything else is idle.
CleanupInit == InitCleanup /\ IdleDoc /\ IdleVideo /\ IdleFn /\ IdleNames /\ IdleRuns
CleanupSpec == CleanupInit /\ [][CleanupNext]_vars

\* Video runs that interleave in one TEMP_DIR; everything else is idle.
RunsInit == InitRuns /\ IdleDoc /\ IdleVideo /\ IdleFn /\ IdleNames /\ IdleCleanup
RunsSpec == RunsInit /\ [][RunsNext]_vars

\* The naming of one page of one PDF; everything else is idle.
NamesInit == InitNames /\ IdleDoc /\ IdleVideo /\ IdleFn /\ IdleRuns /\ IdleCleanup
NamesSpec == NamesInit /\ [][NamesNext]_vars

\* ================================================================ properties
\* ---- what the logs and the history say, read independently of the code
Last(q) == q[Len(q)]
DocReturned == dpc \in {"generate_estimate", "done"}
               \/ (dpc = "failed" /\ derr[1].kind = "GenerateProjectEstimateFailed")
NoUrl(d) == d.download_url = None \/ d.download_url = Some(<<>>)
FetchFailed(e) == e.op = "fetch" /\ ~e.ok
RenderFailed(e) ==
    /\ e.op = "convert_from_bytes"
    /\ \/ e.render.kind = "error"
       \/ e.render.pages = <<>>
       \/ \E k \in 1..Len(e.render.pages) : ~e.render.pages[k].ok
TranscriptionFailed(e) == e.op = "ProcessAudio" /\ ~e.result.ok
EstimateCalled == \E n \in 1..Len(dlog) : dlog[n].op = "GenerateProjectEstimate"
EndsWith(q, suffix) ==
    Len(q) >= Len(suffix) /\ SubSeq(q, Len(q) - Len(suffix) + 1, Len(q)) = suffix
PageSuffix(k) == <<"_","p","a","g","e","_">> \o DecStr(k) \o <<".","p","n","g">>
RECURSIVE KeptPages(_, _)
\* the positions from k on of the pages whose PNG bytes are not empty
KeptPages(pages, k) ==
    IF k > Len(pages) THEN <<>>
    ELSE (IF pages[k].bytes # <<>> THEN <<k>> ELSE <<>>) \o KeptPages(pages, k + 1)
\* the pages convert_from_bytes returned for descriptor i
RenderedPages(i) ==
    LET n == CHOOSE n \in 1..Len(dlog) :
                 dlog[n].op = "convert_from_bytes" /\ dlog[n].i = i
    IN  dlog[n].render.pages
\* the names of the outputs of descriptor i of a run that process_files returned from
ExpectedNames(i) ==
    LET d == input_files[i]
        c == Category(d.type)
    IN  IF c \in {"image", "audio", "text"} THEN <<d.name>>
        ELSE IF c = "pdf"
        THEN LET kept == KeptPages(RenderedPages(i), 1)
             IN  [j \in 1..Len(kept) |-> PageFileName(d.name, kept[j])]
        ELSE <<>>
RECURSIVE ExpectedNamesFrom(_)
ExpectedNamesFrom(i) ==
    IF i > Len(input_files) THEN <<>> ELSE ExpectedNames(i) \o ExpectedNamesFrom(i + 1)
\* an iteration of the loop of process_files ends normally in this step
IterationDone == dpc = "process_files" /\ idx' = idx + 1
\* the slots of f that are populated
Populated(f) ==
    {n \in {"content", "image_data", "audio_data"} :
        (n = "content" /\ f.content # None)
        \/ (n = "image_data" /\ f.image_data # None)
        \/ (n = "audio_data" /\ f.audio_data # None)}

VideoEnded == vpc \in {"done", "failed"}
DownloadStarted == \E n \in 1..Len(vlog) : vlog[n].op = "download_file"

\* C1: a video run that reached the download step has no local video file left
\* once it has ended, however it ended.
C1_LocalVideoRemovedAtEnd ==
    (VideoEnded /\ node_path # None /\ DownloadStarted) => node_path[1] \notin fs

\* C2: once a fetch, a PDF rendering (conversion error, zero pages, a page that
\* cannot be saved) or a transcription has failed, the run has failed: no file
\* list was returned (State.files is still the input) and generate_estimate was
\* not called.
C2_StrictFail ==
    (\E n \in 1..Len(dlog) :
        FetchFailed(dlog[n]) \/ RenderFailed(dlog[n]) \/ TranscriptionFailed(dlog[n]))
    => /\ dpc = "failed"
       /\ derr # None
       /\ files = input_files
       /\ ~EstimateCalled
\* a run failed on its second descriptor, after the first one was processed
C2_Witness ==
    /\ dpc = "failed" /\ idx = 2 /\ processed # <<>>
    /\ FetchFailed(Last(dlog))

\* C3: the file list process_files returns is the concatenation, in input order,
\* of the outputs of each descriptor, the pages of a PDF in increasing page order.
C3_OutputOrder ==
    DocReturned => [j \in 1..Len(files) |-> files[j].name] = ExpectedNamesFrom(1)
\* a two-page PDF followed by a text file
C3_Witness ==
    /\ DocReturned /\ Len(input_files) = 2 /\ Len(files) = 3
    /\ Category(input_files[1].type) = "pdf"
    /\ Category(input_files[2].type) = "text"

\* C4: an iteration that ends normally for an image/*, audio/* or text/*
\* descriptor appends exactly one file, with exactly one content slot populated:
\* image_data for image/*, content for text/* and audio/*.
C4_SingleContent ==
    [][(IterationDone /\ Category(files[idx].type) \in {"image", "audio", "text"})
       => /\ Len(processed') = Len(processed) + 1
          /\ SubSeq(processed', 1, Len(processed)) = processed
          /\ Populated(Last(processed')) =
                 IF Category(files[idx].type) = "image" THEN {"image_data"}
                 ELSE {"content"}]_vars
\* a text descriptor that came with image and audio slots, then an audio one
C4_Witness ==
    /\ dpc = "process_files" /\ idx = 3 /\ Len(processed) = 2
    /\ Category(input_files[1].type) = "text" /\ input_files[1].image_data # None
    /\ Category(input_files[2].type) = "audio"

\* C5 as stated: an iteration that ends normally for an application/pdf
\* descriptor whose PDF rasterized to N >= 1 pages appends exactly N files, the
\* k-th named ..._page_k.png, each image/png with only image_data populated and
\* no download_url.
C5_ExactlyNPages ==
    [][(IterationDone /\ Category(files[idx].type) = "pdf")
       => LET N == Len(Last(dlog').render.pages)
          IN  /\ Len(processed') = Len(processed) + N
              /\ \A k \in 1..N :
                   LET f == processed'[Len(processed) + k]
                   IN  /\ EndsWith(f.name, PageSuffix(k))
                       /\ f.type = T_image_png
                       /\ Populated(f) = {"image_data"}
                       /\ f.download_url = None]_vars
\* C5 amended: it appends exactly one file per page whose PNG bytes are not
\* empty (N files when no page is empty), in page order, the file of page k
\* named ..._page_k.png, each image/png with only image_data populated and no
\* download_url.
C5_OneFilePerNonEmptyPage ==
    [][(IterationDone /\ Category(files[idx].type) = "pdf")
       => LET pages == Last(dlog').render.pages
              kept == KeptPages(pages, 1)
          IN  /\ Len(pages) >= 1
              /\ Len(processed') = Len(processed) + Len(kept)
              /\ SubSeq(processed', 1, Len(processed)) = processed
              /\ ((\A k \in 1..Len(pages) : pages[k].bytes # <<>>)
                    => Len(kept) = Len(pages))
              /\ \A j \in 1..Len(kept) :
                   LET f == processed'[Len(processed) + j]
                   IN  /\ EndsWith(f.name, PageSuffix(kept[j]))
                       /\ f.type = T_image_png
                       /\ Populated(f) = {"image_data"}
                       /\ f.download_url = None]_vars
\* a PDF of two pages, the first of them empty, was processed
C5_Witness ==
    /\ dpc = "process_files" /\ idx = 2 /\ Len(processed) = 1
    /\ Category(input_files[1].type) = "pdf"
    /\ Len(RenderedPages(1)) = 2 /\ RenderedPages(1)[1].bytes = <<>>

\* C6: when convert_from_bytes returned no page, the run has failed with the
\* zero-pages error naming the PDF, and no file list was returned.
C6_ZeroPagesRaises ==
    \A n \in 1..Len(dlog) :
        (dlog[n].op = "convert_from_bytes" /\ dlog[n].render.kind = "pages"
            /\ dlog[n].render.pages = <<>>)
        => /\ dpc = "failed"
           /\ derr # None
           /\ derr[1].kind = "ZeroPages"
           /\ derr[1].name = input_files[dlog[n].i].name
           /\ files = input_files
\* the second descriptor is a PDF that rendered to no page
C6_Witness ==
    /\ dpc = "failed" /\ idx = 2 /\ processed # <<>>
    /\ Last(dlog).op = "convert_from_bytes" /\ Last(dlog).render.kind = "pages"
    /\ Last(dlog).render.pages = <<>>

\* C7: a descriptor without download URL (None or empty), whatever its type, is
\* never fetched and is never passed: process_files does not return, and when
\* the loop reaches it the run fails with the no-download-URL error naming it.
C7_NoUrlFails ==
    \A i \in 1..Len(input_files) :
        NoUrl(input_files[i])
        => /\ ~DocReturned
           /\ idx <= i
           /\ \A n \in 1..Len(dlog) :
                 dlog[n].op # "GenerateProjectEstimate" => dlog[n].i # i
           /\ (idx = i => (dpc \in {"process_files", "failed"}
                           /\ (dpc = "failed" =>
                                 /\ derr[1].kind = "NoDownloadUrl"
                                 /\ derr[1].name = input_files[i].name)))
\* the run failed on a second descriptor that has an empty URL
C7_Witness ==
    /\ dpc = "failed" /\ idx = 2 /\ Len(processed) = 1
    /\ input_files[2].download_url = Some(<<>>)
    /\ derr[1].kind = "NoDownloadUrl"

\* C8: an iteration that ends normally for an audio/* descriptor appends one
\* file of type text/plain whose content is the transcript ProcessAudio
\* returned, with audio_data and image_data empty and the descriptor's name and
\* description.
C8_AudioBecomesText ==
    [][(IterationDone /\ Category(files[idx].type) = "audio")
       => LET f == Last(processed')
              call == Last(dlog')
          IN  /\ Len(processed') = Len(processed) + 1
              /\ call.op = "ProcessAudio" /\ call.result.ok
              /\ f.type = T_text_plain
              /\ f.content = Some(call.result.value)
              /\ f.audio_data = None
              /\ f.image_data = None
              /\ f.name = files[idx].name
              /\ f.description = files[idx].description]_vars
\* an audio descriptor was transcribed to a non-empty text
C8_Witness ==
    /\ dpc = "process_files" /\ idx = 2 /\ Len(processed) = 1
    /\ Category(input_files[1].type) = "audio"
    /\ processed[1].content = Some(Str(<<104,105>>))

DecoderRunsDone == SelectSeq(vlog, LAMBDA e : e.op = "ffmpeg")
\* the decoder exited 0 with non-empty stdout
DecodedOk(run) == run.spawned /\ run.returncode = 0 /\ run.stdout # <<>>
ExtractionReturned == vpc \in {"upload_frames", "done"}
                      \/ (vpc = "failed" /\ verr[1].kind = "StorageUploadError")
ExtractionRaised == vpc = "failed" /\ verr[1].kind = "ExtractionError"

\* C10: as long as every decoder process ran to an exit code, the extraction
\* does not raise, every key frame is attempted, and what it returns is exactly
\* the key frames whose decoder exited 0 with non-empty stdout, in input order.
C10_PartialFailureTolerant ==
    (\A n \in 1..Len(DecoderRunsDone) : DecoderRunsDone[n].run.spawned)
    => /\ ~ExtractionRaised
       /\ ExtractionReturned =>
            LET runs == DecoderRunsDone
                ok == SelectSeq(runs, LAMBDA e : DecodedOk(e.run))
            IN  /\ Len(runs) = Len(KeyFramesOf(analysis))
                /\ \A k \in 1..Len(runs) : runs[k].k = k
                /\ [j \in 1..Len(frames_data) |-> frames_data[j].key_frame]
                     = [j \in 1..Len(ok) |-> KeyFramesOf(analysis)[ok[j].k]]

\* ---- the video run, read from its log
ZeroKeyFrames == analysis # None /\ KeyFramesOf(analysis) = <<>>
VideoOps == {vlog[n].op : n \in 1..Len(vlog)}
CredentialsAbsent == ~(supabase_env.url /\ supabase_env.key /\ supabase_env.bucket)

\* C11: a video run whose analysis returned no key frame ends successfully: it
\* never fails, never starts the decoder, never creates a storage client and
\* never uploads a frame; it keeps the analysis; it reaches its end, and there
\* extracted_frames is the empty list and the local video file is gone.
C11_ZeroKeyFramesEndsEmpty ==
    /\ [](ZeroKeyFrames =>
            /\ vpc \in {"extract_frames", "done"}
            /\ verr = None
            /\ VideoOps \cap {"ffmpeg", "create_async_client", "storage.upload"} = {}
            /\ (vpc = "done" => /\ extracted_frames = Some(<<>>)
                                /\ local_video_path = node_path
                                /\ node_path[1] \notin fs))
    /\ [][ZeroKeyFrames => analysis' = analysis]_vars
    /\ (ZeroKeyFrames ~> (vpc = "done" /\ extracted_frames = Some(<<>>)))
\* such a run has ended, after a download that put the file in place
C11_Witness ==
    /\ ZeroKeyFrames /\ vpc = "done" /\ extracted_frames = Some(<<>>)
    /\ \E n \in 1..Len(vlog) : vlog[n].op = "download_file" /\ vlog[n].result = "ok"

\* C12: with a storage credential absent, a video run (of a video that has a
\* download URL) never completes successfully, what it ends with is the
\* configuration error, no decoder is started and no frame upload is attempted.
C12_NoSuccessWithoutCredentials ==
    (CredentialsAbsent /\ ~NoUrl(video_file))
    => /\ vpc # "done"
       /\ (vpc = "failed" => verr = Some(Exc("ValueError", <<"supabase">>, None)))
       /\ VideoOps \cap {"ffmpeg", "storage.upload"} = {}

\* C13: with a storage credential absent, the video is not downloaded, not
\* uploaded to the analysis service and the analysis model is not called.
C13_ConfigurationCheckedFirst ==
    CredentialsAbsent
    => VideoOps \cap {"download_file", "files.upload", "generate_content"} = {}

\* ---- the steps of a video run: 1 download, 2 remote upload (with its
\* polling), 3 analysis (with the deletion of the remote copy), 4 frame
\* extraction (storage client, decoder runs, frame uploads), 5 done
StepOfOp(op) ==
    IF op = "download_file" THEN 1
    ELSE IF op = "files.upload" THEN 2
    ELSE IF op \in {"generate_content", "files.delete"} THEN 3
    ELSE 4
StepOfPc(pc) ==
    IF pc = "analyze_video" THEN 0
    ELSE IF pc = "download_file" THEN 1
    ELSE IF pc \in {"upload_video_to_gemini", "poll"} THEN 2
    ELSE IF pc = "run_analyze_video_baml" THEN 3
    ELSE IF pc \in {"extract_frames", "extract_key_frames", "upload_frames"} THEN 4
    ELSE 5
\* the call of this event raised
EventFailed(e) ==
    IF e.op = "ffmpeg" THEN ~e.run.spawned
    ELSE IF e.op = "generate_content" THEN e.result \in {"model_error", "parse_error"}
    ELSE IF e.op = "files.delete" THEN e.result = "delete_error"
    ELSE e.result # "ok"
Succeeded(op) == \E n \in 1..Len(vlog) : vlog[n].op = op /\ ~EventFailed(vlog[n])
CountOp(op) == Cardinality({n \in 1..Len(vlog) : vlog[n].op = op})

\* C14: the steps of a video run occur only in the order download, remote
\* upload, analysis, frame extraction, done; a step starts only after the
\* previous one has completed successfully; no step is entered twice; a failure
\* ends the run, nothing is executed after it.
C14_StepOrder ==
    /\ [](/\ \A m, n \in 1..Len(vlog) :
                m < n => StepOfOp(vlog[m].op) <= StepOfOp(vlog[n].op)
          /\ \A op \in {"download_file", "files.upload", "generate_content",
                        "files.delete", "create_async_client"} : CountOp(op) <= 1
          /\ \A n \in 1..Len(vlog) :
                EventFailed(vlog[n]) => (n = Len(vlog) /\ vpc = "failed")
          /\ (verr # None) <=> (vpc = "failed")
          /\ ("files.upload" \in VideoOps => Succeeded("download_file"))
          /\ ("generate_content" \in VideoOps
                => /\ Succeeded("files.upload")
                   /\ \A n \in 1..Len(vlog) :
                        vlog[n].op = "generate_content" => vlog[n].state = Some("ACTIVE"))
          /\ (VideoOps \cap {"create_async_client", "ffmpeg", "storage.upload"} # {}
                => Succeeded("generate_content") /\ Succeeded("files.delete"))
          /\ (vpc = "done" => /\ Succeeded("files.delete")
                              /\ analysis # None /\ extracted_frames # None))
    /\ [][/\ (vpc' # "failed" => StepOfPc(vpc') \in {StepOfPc(vpc), StepOfPc(vpc) + 1})
          /\ (vpc \in {"done", "failed"} => vpc' = vpc /\ vlog' = vlog)
          /\ (vpc = "extract_key_frames" => vpc' # "extract_frames")
          /\ (vpc = "upload_frames" => vpc' \notin {"extract_frames", "extract_key_frames"})
         ]_vars
\* a run went through all the steps and returned two frames
C14_Witness ==
    /\ vpc = "done" /\ extracted_frames # None /\ Len(uploaded) = 2
    /\ CountOp("ffmpeg") = 2 /\ CountOp("storage.upload") = 2

\* ---- the states of a document run
DocStage(pc) ==
    IF pc = "process_files" THEN "NORMALIZING"
    ELSE IF pc = "generate_estimate" THEN "ESTIMATING"
    ELSE IF pc = "done" THEN "DONE"
    ELSE "FAILED"

\* C15: a document run changes state only forward along NORMALIZING, ASSESSING,
\* ESTIMATING, DONE, one state at a time (or fails), so that a run that is DONE
\* has been in each earlier state once; ESTIMATING is entered only when every
\* descriptor has been normalized; a state that was left is not entered again.
C15_ForwardThroughAssessing ==
    [][DocStage(dpc') # DocStage(dpc)
       => /\ \/ DocStage(dpc') = "FAILED"
             \/ <<DocStage(dpc), DocStage(dpc')>> \in
                   { <<"NORMALIZING", "ASSESSING">>, <<"ASSESSING", "ESTIMATING">>,
                     <<"ESTIMATING", "DONE">> }
          /\ DocStage(dpc) \notin {"DONE", "FAILED"}
          /\ (DocStage(dpc') = "ESTIMATING" => idx > Len(input_files))]_vars

\* C16: when the estimation model call fails, the run fails with the error of
\* the estimation stage that carries the call's own error, and ai_estimate is
\* what it was before the call; no failed run has written an estimate.
C16_EstimateFailure ==
    /\ [](\A n \in 1..Len(dlog) :
            (dlog[n].op = "GenerateProjectEstimate" /\ ~dlog[n].result.ok)
            => /\ n = Len(dlog)
               /\ dpc = "failed"
               /\ derr # None
               /\ derr[1].kind = "GenerateProjectEstimateFailed"
               /\ derr[1].cause = Some(dlog[n].result.value)
               /\ ai_estimate = dlog[n].existing_estimate)
    /\ [][/\ (dpc' = "failed" => ai_estimate' = ai_estimate)
          /\ (ai_estimate' # ai_estimate => dpc' = "done")]_vars
\* the estimation of a run that had a prior estimate has failed
C16_Witness ==
    /\ dpc = "failed" /\ EstimateCalled /\ ai_estimate = Some("E0")
    /\ Len(files) = 2

\* ---- a direct call of download_from_url, read from its arguments and result
Called == dl_args # None /\ dl_result # None
GotStatus(st) == IF dl_args[1].resp.kind = "http" THEN dl_args[1].resp.status \in st ELSE FALSE
ContentTypeContradicts ==
    IF dl_args[1].expected_mime_type_prefix \in {None, Some(<<>>)} THEN FALSE
    ELSE ~StartsWith(dl_args[1].resp.ctype, dl_args[1].expected_mime_type_prefix[1])
\* b is UTF-8 made of one- and two-byte sequences: every byte is ASCII, a lead
\* byte followed by a continuation byte, or a continuation byte after a lead byte
WellFormedUtf8(b) ==
    \A i \in 1..Len(b) :
        \/ b[i] < 128
        \/ (b[i] \in 194..223 /\ i < Len(b) /\ b[i + 1] \in 128..191)
        \/ (b[i] \in 128..191 /\ i > 1 /\ b[i - 1] \in 194..223)
RECURSIVE Utf8Encode(_)
\* the UTF-8 bytes of code points below 2048
Utf8Encode(cps) ==
    IF cps = <<>> THEN <<>>
    ELSE (IF cps[1] < 128 THEN <<cps[1]>>
          ELSE <<192 + (cps[1] \div 64), 128 + (cps[1] % 64)>>) \o Utf8Encode(Tail(cps))
\* the sextet of a base64 character
B64Val(c) == IF c >= 65 /\ c <= 90 THEN c - 65
             ELSE IF c >= 97 /\ c <= 122 THEN c - 97 + 26
             ELSE IF c >= 48 /\ c <= 57 THEN c - 48 + 52
             ELSE IF c = 43 THEN 62
             ELSE IF c = 47 THEN 63
             ELSE 0
RECURSIVE B64Decode(_)
\* base64.b64decode of a padded base64 text
B64Decode(t) ==
    IF Len(t) < 4 THEN <<>>
    ELSE <<B64Val(t[1]) * 4 + (B64Val(t[2]) \div 16)>>
         \o (IF t[3] = 61 THEN <<>> ELSE <<(B64Val(t[2]) % 16) * 16 + (B64Val(t[3]) \div 4)>>)
         \o (IF t[4] = 61 THEN <<>> ELSE <<(B64Val(t[3]) % 4) * 64 + B64Val(t[4])>>)
         \o B64Decode(SubSeq(t, 5, Len(t)))

\* C17: for a response whose status is not 2xx, download_from_url raises, and
\* the error carries the status code and the response body (its text).
C17_Non2xxRaisesWithStatus ==
    (Called /\ GotStatus(100..199 \cup 300..599))
    => LET r == dl_result[1]
           resp == dl_args[1].resp
       IN  /\ ~r.ok
           /\ IF r.value.cause = None THEN FALSE
              ELSE /\ r.value.cause[1][1] = resp.status
                   /\ (WellFormedUtf8(resp.body)
                         => Utf8Encode(r.value.cause[1][2][2]) = resp.body)

C19_TextOrBase64 ==
    (Called /\ GotStatus({200}))
    => LET r == dl_result[1]
           body == dl_args[1].resp.body
       IN  /\ r.ok
           /\ IF dl_args[1].as_bytes THEN r.value = Bytes(body)
              ELSE /\ r.value[1] = "str"
                   /\ IF WellFormedUtf8(body) THEN Utf8Encode(r.value[2]) = body
                      ELSE /\ B64Decode(r.value[2]) = body
                           /\ Len(r.value[2]) = 4 * ((Len(body) + 2) \div 3)
\* the body b'\xff' came back as the string "/w=="
C19_Witness ==
    /\ Called /\ GotStatus({200}) /\ ~dl_args[1].as_bytes
    /\ dl_args[1].resp.body = <<255>>
    /\ dl_result[1] = Ok(Str(<<47,119,61,61>>))

\* ---- the requests of a document run
FetchesOf(i) == {n \in 1..Len(dlog) : dlog[n].op = "fetch" /\ dlog[n].i = i}
Fetchable(d) == ~NoUrl(d) /\ Category(d.type) \in {"pdf", "image", "audio", "text"}
\* the loop of process_files has dealt with descriptor i, to its end or to a failure
Reached(i) == idx > i \/ (idx = i /\ dpc = "failed")

\* C20: in a run of process_files the URL of a pdf, image, audio or text
\* descriptor is requested once when the loop has reached the descriptor, and
\* never more than once; no other descriptor is requested; a failed request is
\* the last call of the run, which has failed with the error of that request.
C20_SingleAttempt ==
    /\ \A i \in 1..Len(input_files) :
         /\ Cardinality(FetchesOf(i)) <= 1
         /\ (FetchesOf(i) # {} => Fetchable(input_files[i]) /\ Reached(i))
         /\ (Fetchable(input_files[i]) /\ Reached(i) => FetchesOf(i) # {})
         /\ \A n \in FetchesOf(i) : Some(dlog[n].url) = input_files[i].download_url
    /\ \A n \in 1..Len(dlog) :
         FetchFailed(dlog[n])
         => /\ n = Len(dlog)
            /\ dpc = "failed"
            /\ derr # None
            /\ derr[1].kind \in {"ClientError", "DownloadFailed", "UnicodeDecodeError"}
            /\ derr[1].name = dlog[n].url
\* two descriptors with the same URL were processed, each with its own request
C20_Witness ==
    /\ DocReturned /\ Len(input_files) = 2
    /\ input_files[1].download_url = input_files[2].download_url
    /\ FetchesOf(1) # {} /\ FetchesOf(2) # {}

\* ---- the naming of a page, read from its arguments and result
Named == nm_args # None /\ nm_result # None
NamedPlansPage1 == Named /\ nm_args[1].original_file_name = PlansName
                         /\ nm_args[1].page_num = 1
\* the name without its final extension: what precedes the last dot, when that
\* dot is in the last path component and is not one of its leading dots
Stem(name) ==
    LET ext == {d \in 1..Len(name) :
                  /\ name[d] = "."
                  /\ \A j \in (d + 1)..Len(name) : name[j] \notin {".", "/"}
                  /\ \E k \in 1..(d - 1) :
                        name[k] # "." /\ \A j \in k..(d - 1) : name[j] # "/"}
    IN  IF ext = {} THEN name ELSE SubSeq(name, 1, (CHOOSE d \in ext : TRUE) - 1)
KeptChar(c) == c \in Letters \/ c \in {"0","1","2","3","4","5","6","7","8","9"}
               \/ c \in {" ", ".", "_"}

\* C21 as stated: the first page of "Plans (v2)/Final.pdf" is named
\* "Plans v2 Final_page_1.png".
C21_PlansNameDropsPunctuation ==
    NamedPlansPage1
    => nm_result[1] = <<"P","l","a","n","s"," ","v","2"," ","F","i","n","a","l",
                        "_","p","a","g","e","_","1",".","p","n","g">>
\* C21 amended: the first page of "Plans (v2)/Final.pdf" is named
\* "Plans _v2__Final_page_1.png": each of "(", ")" and "/" has become one "_".
C21_PlansNameUnderscores ==
    NamedPlansPage1
    => nm_result[1] = <<"P","l","a","n","s"," ","_","v","2","_","_","F","i","n","a","l",
                        "_","p","a","g","e","_","1",".","p","n","g">>
\* that page has been named
C21_Witness == NamedPlansPage1 /\ Len(nm_result[1]) = 27

\* C22: a page name is a base followed by _page_<n>.png, n the page number from
\* 1; the base is the name without its final extension, cut after its last
\* character that is not a space, with every character that is not
\* alphanumeric, space, dot or underscore replaced by one underscore.
C22_SanitizedBase ==
    Named
    => LET stem == Stem(nm_args[1].original_file_name)
           suffix == <<"_","p","a","g","e","_">> \o DecStr(nm_args[1].page_num)
                       \o <<".","p","n","g">>
           out == nm_result[1]
           base == SubSeq(out, 1, Len(out) - Len(suffix))
       IN  /\ Len(out) >= Len(suffix)
           /\ SubSeq(out, Len(out) - Len(suffix) + 1, Len(out)) = suffix
           /\ Len(base) <= Len(stem)
           /\ \A i \in 1..Len(base) :
                 base[i] = IF KeptChar(stem[i]) THEN stem[i] ELSE "_"
           /\ \A i \in (Len(base) + 1)..Len(stem) : stem[i] = " "
           /\ (base # <<>> => base[Len(base)] # " ")
\* a name with a dash, a tab and trailing spaces before its extension
C22_Witness ==
    /\ Named /\ nm_args[1].page_num = 12
    /\ nm_args[1].original_file_name = <<"-", " ", ".">>
    /\ nm_result[1] = <<"_","_","p","a","g","e","_","1","2",".","p","n","g">>

\* C23: upload_video_to_gemini returns only when the state it saw last (in the
\* upload's answer or in the latest poll) is ACTIVE, so the remote file is
\* ACTIVE whenever the analysis is about to run and at every call of the model.
C23_ActiveBeforeAnalysis ==
    /\ [](vpc = "run_analyze_video_baml"
            => gemini.present /\ gemini.state = Some("ACTIVE"))
    /\ [](\A n \in 1..Len(vlog) :
            vlog[n].op \in {"generate_content", "files.delete"}
            => vlog[n].state = Some("ACTIVE"))
    /\ [][(vpc \in {"upload_video_to_gemini", "poll"} /\ vpc' = "run_analyze_video_baml")
          => (vpc = "poll" /\ gemini.state = Some("ACTIVE") /\ gemini' = gemini)]_vars
\* the upload has returned and the analysis is about to run
C23_Witness ==
    /\ vpc = "run_analyze_video_baml" /\ gemini.state = Some("ACTIVE")
    /\ \E n \in 1..Len(vlog) : vlog[n].op = "files.upload" /\ vlog[n].result = "ok"

\* C24: the polling loop ends once the remote file is seen ACTIVE; it is left
\* only that way or by a polling call that raises; while the file is not ACTIVE
\* another round that changes nothing is always possible (no bound, no deadline),
\* so a file that never becomes ACTIVE keeps the run in the loop for ever.
C24_PollingLoop ==
    /\ ((vpc = "poll" /\ gemini.state = Some("ACTIVE")) ~> vpc = "run_analyze_video_baml")
    /\ [][(vpc = "poll" /\ vpc' # "poll")
          => \/ (gemini.state = Some("ACTIVE") /\ vpc' = "run_analyze_video_baml")
             \/ (vpc' = "failed"
                 /\ verr' = Some(Exc("PollError", video_file.name, None)))]_vars
    /\ []((vpc = "poll" /\ gemini.state # Some("ACTIVE"))
            => ENABLED (PollVideo /\ gemini' = gemini /\ vpc' = "poll"))
\* the remote file is in the failed state and the loop is still polling
C24_Witness == vpc = "poll" /\ gemini.present /\ gemini.state = Some("FAILED")

\* ---- runs side by side
HasPath(r) == run_path[r] # None
\* the run holds its local file: downloaded, not yet at its cleanup
HoldsFile(pc) == pc \in {"run_analyze_video_baml", "extract_key_frames", "upload_frames"}

\* C25: two video runs, of the same video descriptor too, have different local
\* paths; every file in TEMP_DIR was written by the run whose path it is at; the
\* decoder of a run is given the file that run wrote; and no step of a run
\* removes or replaces the file another run holds.
C25_DistinctLocalPaths ==
    /\ [](/\ \A r, q \in Runs :
                (r # q /\ HasPath(r) /\ HasPath(q)) => run_path[r] # run_path[q]
          /\ \A f \in tmp_dir : run_path[f[2]] = Some(f[1])
          /\ \A r \in Runs : HoldsFile(run_pc[r]) => <<run_path[r][1], r>> \in tmp_dir
          /\ \A r \in Runs : run_read[r] \in {None, Some(r)})
    /\ [][\A r \in Runs :
            (HoldsFile(run_pc[r]) /\ run_pc'[r] = run_pc[r])
            => (<<run_path[r][1], r>> \in tmp_dir /\ <<run_path[r][1], r>> \in tmp_dir')]_vars
\* one run has ended and removed its file while the other still holds its own
C25_Witness ==
    /\ run_pc # <<>>
    /\ run_pc[1] = "done" /\ run_read[1] = Some(1)
    /\ run_pc[2] = "extract_key_frames" /\ <<run_path[2][1], 2>> \in tmp_dir

\* ---- the removal of the local video
\* a step of the call itself, as opposed to a step of something else
CleanupStep == cl_pc' # cl_pc
PathAbsent == ~Truthy(cl_path) \/ cl_path[1] \notin cl_fs

\* C26: _cleanup_temp_file never raises; a call with no path, with the empty
\* path, or with a path that does not exist (never created, removed before the
\* call, or removed between the test of line 43 and the removal) changes no
\* file; a call changes no file other than its path; after a call on an
\* existing file that os.remove could remove the file is gone; and a second
\* call changes nothing that the first left.
C26_CleanupIdempotent ==
    /\ [](cl_raised = FALSE)
    /\ []((cl_calls >= 1 /\ cl_pc = "idle" /\ ~cl_faults) => PathAbsent)
    /\ [][CleanupStep =>
            /\ PathAbsent => cl_fs' = cl_fs
            /\ cl_calls >= 2 => cl_fs' = cl_fs
            /\ IF cl_path = None THEN cl_fs' = cl_fs
               ELSE cl_fs' \in {cl_fs, cl_fs \ {cl_path[1]}}]_vars
\* the second call on a file the first call removed has returned
C26_Witness ==
    /\ cl_calls = 2 /\ cl_pc = "idle"
    /\ cl_path = Some(ClVideoPath) /\ cl_fs = {ClOtherPath}
\* the file was removed by something else between the test and the removal
C26_WitnessRace ==
    /\ cl_pc = "safe_remove" /\ cl_path = Some(ClVideoPath) /\ ClVideoPath \notin cl_fs

\* ---- the life of the local video file
\* between the successful end of the download and the end of the extraction
FileInUse == vpc \in {"upload_video_to_gemini", "poll", "run_analyze_video_baml",
                      "extract_frames", "extract_key_frames"}
LocalFileRemoved == node_path # None /\ node_path[1] \in fs /\ node_path[1] \notin fs'

\* C27: from the successful end of the download until the extraction has
\* returned or raised, the local video file exists; every decoder invocation
\* found it; the file is removed only by a step that ends the run or that
\* follows the return of the extraction; and on a run with key frames that
\* ended well, every key frame had its decoder run before the removal.
C27_FileLivesThroughExtraction ==
    /\ [](/\ FileInUse => node_path[1] \in fs
          /\ \A n \in 1..Len(DecoderRunsDone) : DecoderRunsDone[n].exists)
    /\ [][LocalFileRemoved =>
            /\ vpc' \in {"done", "failed"}
            /\ (vpc' = "done" /\ KeyFramesOf(analysis) # <<>>) =>
                 /\ vpc = "upload_frames"
                 /\ Len(DecoderRunsDone) = Len(KeyFramesOf(analysis))]_vars
\* a run with two key frames ended well, both decoder runs found the file, and
\* the file is gone
C27_Witness ==
    /\ vpc = "done" /\ node_path # None /\ node_path[1] \notin fs
    /\ Len(DecoderRunsDone) = 2
    /\ \A n \in 1..2 : DecoderRunsDone[n].exists /\ DecodedOk(DecoderRunsDone[n].run)
    /\ Len(extracted_frames[1]) = 2

\* ---- the estimation stage
\* C28: the step of generate_estimate calls the model once, with the file list
\* that process_files returned, the prior estimate and the requested changes
\* as they are in the state, absent ones passed as absent; when the model
\* answers, the run ends with the answer as its estimate in place of the prior
\* one, and when the model fails the prior estimate is kept.
C28_EstimationInputs ==
    /\ [](dpc \in {"generate_estimate", "done"} => files = processed)
    /\ [][dpc = "generate_estimate" =>
            LET call == Last(dlog') IN
            /\ Len(dlog') = Len(dlog) + 1
            /\ call.op = "GenerateProjectEstimate"
            /\ call.files = files
            /\ call.existing_estimate = ai_estimate
            /\ call.requested_changes = requested_changes
            /\ UNCHANGED <<files, requested_changes>>
            /\ IF call.result.ok
               THEN dpc' = "done" /\ ai_estimate' = Some(call.result.value)
               ELSE dpc' = "failed" /\ ai_estimate' = ai_estimate]_vars
\* a first estimate: no prior estimate, no requested changes, one file
C28_Witness ==
    /\ dpc = "done" /\ Len(files) = 1
    /\ Last(dlog).existing_estimate = None /\ Last(dlog).requested_changes = None
    /\ ai_estimate = Some(Last(dlog).result.value)
\* a revision: the prior estimate and the changes were passed, and replaced
C28_WitnessRevision ==
    /\ dpc = "done"
    /\ Last(dlog).existing_estimate = Some("E0") /\ Last(dlog).requested_changes = Some("rc")
    /\ ai_estimate # Some("E0")

\* ---- descriptors that come with content
\* C29: process_files requests the URL of no descriptor that already carries
\* content, image_data or audio_data.
C29_NoFetchOfPopulated ==
    \A n \in 1..Len(dlog) :
        dlog[n].op = "fetch" => Populated(input_files[dlog[n].i]) = {}

\* ---- pages of empty PNG bytes
\* this step renders the PDF of descriptor idx into at least one page, and
\* every page is saved without an error
RendersSavedPages ==
    /\ InLoop /\ Category(files[idx].type) = "pdf"
    /\ Len(dlog') > Len(dlog)
    /\ Last(dlog').op = "convert_from_bytes"
    /\ Last(dlog').render.pages # <<>>
    /\ \A k \in 1..Len(Last(dlog').render.pages) : Last(dlog').render.pages[k].ok

\* C30: when a PDF renders to pages that all save without an error, the
\* iteration ends normally whatever pages have empty PNG bytes: the run has not
\* failed, and what is appended is one file per page of non-empty bytes, in page
\* order, the name and the description of each carrying the position of the
\* page in the PDF.
C30_EmptyPageSkipped ==
    [][RendersSavedPages =>
         LET kept == KeptPages(Last(dlog').render.pages, 1) IN
         /\ dpc' = "process_files" /\ idx' = idx + 1 /\ derr' = None
         /\ Len(processed') = Len(processed) + Len(kept)
         /\ SubSeq(processed', 1, Len(processed)) = processed
         /\ \A j \in 1..Len(kept) :
              LET f == processed'[Len(processed) + j]
              IN  /\ f.name = PageFileName(files[idx].name, kept[j])
                  /\ EndsWith(f.name, PageSuffix(kept[j]))
                  /\ f.description[1].page = kept[j]]_vars
\* the first page of a PDF of two pages had empty bytes: the only file appended
\* is that of page 2
C30_Witness ==
    /\ dpc = "process_files" /\ idx = 2 /\ Len(processed) = 1
    /\ Category(input_files[1].type) = "pdf"
    /\ Len(RenderedPages(1)) = 2
    /\ RenderedPages(1)[1] = [ok |-> TRUE, bytes |-> <<>>]
    /\ EndsWith(processed[1].name, PageSuffix(2))
    /\ processed[1].description[1].page = 2

\* ---- the filename of a frame
DigitVal(c) == (CHOOSE d \in 1..10 : DigitChars[d] = c) - 1
IsDigit(c) == \E d \in 1..10 : DigitChars[d] = c
RECURSIVE DecVal(_)
\* the number a string of digits denotes
DecVal(q) == IF q = <<>> THEN 0
             ELSE 10 * DecVal(SubSeq(q, 1, Len(q) - 1)) + DigitVal(q[Len(q)])
\* q is digits, a dot and exactly two digits, and denotes ms thousandths of a
\* second to the nearest hundredth
TwoDecimalsOf(q, ms) ==
    /\ Len(q) >= 4
    /\ q[Len(q) - 2] = "."
    /\ \A k \in 1..Len(q) : k # Len(q) - 2 => IsDigit(q[k])
    /\ LET centis == 100 * DecVal(SubSeq(q, 1, Len(q) - 3))
                       + DecVal(SubSeq(q, Len(q) - 1, Len(q)))
       IN  10 * centis - ms \in -5..5
\* nm is frame_ts_<ms with two decimals>.png
IsFrameTsName(nm, ms) ==
    /\ Len(nm) >= 17
    /\ SubSeq(nm, 1, 9) = <<"f","r","a","m","e","_","t","s","_">>
    /\ SubSeq(nm, Len(nm) - 3, Len(nm)) = <<".","p","n","g">>
    /\ TwoDecimalsOf(SubSeq(nm, 10, Len(nm) - 4), ms)
\* the filename the key frame alone determines
DerivedFilenameOk(nm, key_frame) ==
    IF key_frame.filename \notin {None, Some(<<>>)}
    THEN nm = key_frame.filename[1]
    ELSE IsFrameTsName(nm, key_frame.timestamp_ms)

\* C31: every extracted frame carries the suggested filename of its key frame
\* when that is present and not empty, and otherwise frame_ts_<timestamp with
\* two decimals>.png, whatever the decoder did for the other key frames.
C31_DerivedFilename ==
    \A j \in 1..Len(frames_data) :
        DerivedFilenameOk(frames_data[j].frame_filename, frames_data[j].key_frame)
\* the first key frame was skipped, the second has an empty suggested filename
\* and was extracted under its timestamp
C31_Witness ==
    /\ Len(frames_data) = 1 /\ Len(DecoderRunsDone) = 2
    /\ ~DecodedOk(DecoderRunsDone[1].run)
    /\ frames_data[1].key_frame.filename = Some(<<>>)
    /\ frames_data[1].frame_filename
         = <<"f","r","a","m","e","_","t","s","_","1",".","0","0",".","p","n","g">>

\* ---- the input of process_files
\* process_files is running, or it has raised
InProcessFiles == dpc = "process_files" \/ (dpc = "failed" /\ ~EstimateCalled)

\* C32: while process_files runs and after it has raised, State.files is the
\* list the run was given: same length, same order, every descriptor with the
\* fields it came with. No iteration changes it; it changes only when the
\* function returns, to the list of the records the function built.
C32_InputUnchanged ==
    /\ [](InProcessFiles => files = input_files)
    /\ [][dpc = "process_files" =>
            \/ files' = files
            \/ (idx > Len(files) /\ dpc' = "generate_estimate" /\ files' = processed)]_vars
\* an audio descriptor was transcribed: the output is text/plain with content,
\* the input is still the audio descriptor without content
C32_Witness ==
    /\ dpc = "process_files" /\ idx = 2 /\ Len(processed) = 1
    /\ Category(files[1].type) = "audio" /\ files[1].content = None
    /\ processed[1].type = T_text_plain /\ processed[1].content # None
    /\ files = input_files

\* ---- the remote copy of the video
\* C33: a video run that has ended has left no copy of the video in the remote
\* analysis service.
C33_RemoteCopyDeleted ==
    VideoEnded => ~gemini.present

\* ---- the storage paths of the frames of a run
\* C34: the frames extracted from different key frames of a run have different
\* storage paths, and no upload of a run is refused because an earlier frame of
\* the run is already at its path.
C34_DistinctStoragePaths ==
    /\ \A i, j \in 1..Len(frames_data) :
         frames_data[i].key_frame # frames_data[j].key_frame
         => StoragePath(frames_data[i].frame_filename)
              # StoragePath(frames_data[j].frame_filename)
    /\ \A n \in 1..Len(vlog) :
         (vlog[n].op = "storage.upload" /\ vlog[n].result = "error")
         => \A m \in 1..(n - 1) :
              ~(vlog[m].op = "storage.upload" /\ vlog[m].path = vlog[n].path)

\* ---- what a failed run leaves in storage
\* what follows a failed frame upload: nothing; the run has failed and
\* extracted_frames is not set (this part holds)
C35_StopsAtFailedUpload ==
    \A n \in 1..Len(vlog) :
        (vlog[n].op = "storage.upload" /\ vlog[n].result = "error")
        => /\ n = Len(vlog)
           /\ vpc = "failed"
           /\ extracted_frames = None
\* C35: a video run that has ended with an error has left no frame in storage;
\* after a failed frame upload no other upload is made and extracted_frames is
\* not set.
C35_AllOrNothing ==
    /\ vpc = "failed" => bucket = {}
    /\ C35_StopsAtFailedUpload

\* ---- what a successful run returns
\* the key frames whose decoder run exited 0 with non-empty stdout, in order
DecodedKeyFrames ==
    LET ok == SelectSeq(DecoderRunsDone, LAMBDA e : DecodedOk(e.run))
    IN  [j \in 1..Len(ok) |-> KeyFramesOf(analysis)[ok[j].k]]
UploadedOk(path) ==
    \E n \in 1..Len(vlog) :
        vlog[n].op = "storage.upload" /\ vlog[n].path = path /\ vlog[n].result = "ok"

PerFileOps == {"fetch", "convert_from_bytes", "ProcessAudio"}
CallFailed(e) == e.op \in PerFileOps /\ (FetchFailed(e) \/ RenderFailed(e) \/ TranscriptionFailed(e))
\* the error belongs to descriptor d, whose last call was e (None: no call)
ErrorOf(err, d, e) ==
    IF NoUrl(d) THEN err = Exc("NoDownloadUrl", d.name, None) /\ e = None
    ELSE /\ e # None
         /\ CallFailed(e[1])
         /\ IF e[1].op = "fetch" THEN err.name = d.download_url[1]
            ELSE IF e[1].op = "convert_from_bytes" THEN err.name = d.name
            ELSE err = e[1].result.value

\* C37: from the moment a call made for descriptor i fails, or descriptor i is
\* found to have no URL, process_files has failed at i: the failed call is the
\* last call of the run, no call was made for a descriptor after i, the
\* descriptors before i made only calls that succeeded, and the error of the
\* run is the one raised for descriptor i.
C37_StopsAtFirstFailure ==
    /\ [](\A n \in 1..Len(dlog) :
            (dlog[n].op \in PerFileOps /\ CallFailed(dlog[n]))
            => (n = Len(dlog) /\ dpc = "failed" /\ idx = dlog[n].i))
    /\ []((derr # None /\ ~EstimateCalled) =>
            /\ dpc = "failed" /\ idx <= Len(input_files)
            /\ \A n \in 1..Len(dlog) : dlog[n].i <= idx
            /\ LET mine == SelectSeq(dlog, LAMBDA e : e.i = idx)
               IN  ErrorOf(derr[1], input_files[idx],
                           IF mine = <<>> THEN None ELSE Some(Last(mine))))
    /\ [][dpc = "failed" => UNCHANGED <<dlog, derr, idx, processed>>]_vars
\* the transcription of the first of two descriptors failed: nothing was
\* requested for the second
C37_Witness ==
    /\ dpc = "failed" /\ idx = 1 /\ Len(input_files) = 2
    /\ Fetchable(input_files[2])
    /\ dlog # <<>>
    /\ TranscriptionFailed(Last(dlog))
    /\ \A n \in 1..Len(dlog) : dlog[n].i = 1

\* ---- errors and the removal of the local video
\* the kinds of error a stage of the video run raises itself
StageErrors(pc) ==
    IF pc = "analyze_video" THEN {"ValueError"}
    ELSE IF pc = "download_file" THEN {"DownloadError"}
    ELSE IF pc = "upload_video_to_gemini" THEN {"UploadError"}
    ELSE IF pc = "poll" THEN {"PollError"}
    ELSE IF pc = "run_analyze_video_baml" THEN {"AnalysisError"}
    ELSE IF pc = "extract_frames" THEN {"ValueError", "StorageClientError"}
    ELSE IF pc = "extract_key_frames" THEN {"ExtractionError"}
    ELSE IF pc = "upload_frames" THEN {"StorageUploadError"}
    ELSE {}

\* C38: the step in which a video run fails sets the run's error to an error of
\* the stage that was running, whether the removal of the local video made in
\* that step removed the file or failed; and the error of a failed run does not
\* change afterwards.
C38_CleanupNeverMasks ==
    /\ [][(vpc # "failed" /\ vpc' = "failed") =>
            /\ verr' # None
            /\ verr'[1].kind \in StageErrors(vpc)]_vars
    /\ [][vpc = "failed" => verr' = verr]_vars
    /\ [](vpc = "failed" <=> verr # None)
\* the analysis failed and os.remove failed too: the file is still there and
\* the run's error is that of the analysis
C38_Witness ==
    /\ vpc = "failed" /\ rm_faults
    /\ node_path # None /\ node_path[1] \in fs
    /\ verr[1].kind = "AnalysisError"

\* ---- a PDF whose pages are all empty
\* C39: an iteration of process_files that ends normally for an application/pdf
\* descriptor appends at least one page file.
C39_PdfNeverDisappears ==
    [][(IterationDone /\ Category(files[idx].type) = "pdf")
       => Len(processed') > Len(processed)]_vars

====
